---------------------------- MODULE Spec2Model ----------------------------
(***************************************************************************)
(* Model of server/src/main.rs (Simmurator server): the access recorder    *)
(* of log_middleware (request counter + bounded access log, two std        *)
(* Mutexes), the readers get_access_log, the process-wide broadcast        *)
(* channel sse_tx and the Live Stream Sessions of sse_handler.             *)
(*                                                                         *)
(* Every handler is split at its statement boundaries so that the          *)
(* interleavings of concurrently running tasks (tokio multi-thread         *)
(* runtime, #[tokio::main]) are explored.                                  *)
(***************************************************************************)
EXTENDS Integers, Sequences, FiniteSets, TLC

(***************************************************************************)
(* Bounds of the model.                                                    *)
(* LogCap stands for the literal 500 of main.rs:1222-1223 and ChannelCap   *)
(* for the number of events the ring of broadcast::channel(100),           *)
(* main.rs:1239, retains.  The code is parametric in both; the model       *)
(* checks it at small values so that eviction and lag are reached within   *)
(* MaxRecords record operations.                                           *)
(***************************************************************************)
LogCap == 3
ChannelCap == 2
MaxRecords == 5

\* limit.unwrap_or(50) of get_access_log
DefaultLimit == 50

\* The concurrently running tasks: request tasks that pass the recording
\* section of log_middleware, get_access_log tasks, /events sessions.
Recorders == {"q1", "q2"}
Readers == {"g1"}
Sessions == {"s1", "s2"}

\* Tasks are interchangeable: a new request takes the first idle task slot
\* and sessions are named in the order of their subscribe calls.
RecorderOrder == << "q1", "q2" >>
SessionOrder == << "s1", "s2" >>

\* Status codes the wrapped handler (next.run) may answer with.  The
\* sessions forward an event whatever its payload, so the specification of
\* the sessions draws the payload from the smaller set.
Statuses == {200, 500}
StreamStatuses == {200}

\* Response times (ms) the middleware measures in the specifications that
\* do not read them.
Times == {10}

\* The requests a specification sends: status answered, URI, time taken.
Requests(sts, uris, times) ==
    {[status |-> st, uri |-> u, ms |-> t] : st \in sts, u \in uris, t \in times}

\* get_stats tasks.
StatReaders == {"k1"}

\* get_sensor_data tasks and get_all_sensors tasks.
Fetchers == {"d1", "d2"}
Listers == {"a1"}

\* Mutex owner value of an unlocked Mutex.
Free == "free"

VARIABLES
    request_counter,   \* AppState.request_counter (the usize inside the Mutex)
    counterLock,       \* owner of the request_counter Mutex, or Free
    access_log,        \* AppState.access_log (the Vec inside the Mutex)
    logLock,           \* owner of the access_log Mutex, or Free
    chan,              \* every event the broadcast channel accepted, in order;
                       \* the ring retains the last ChannelCap of them
    rxCount,           \* sse_tx.receiver_count()
    rpc,               \* log_middleware: position of each request task
    rid,               \* log_middleware: local `id`
    rresp,             \* log_middleware: local `response` (its status code)
    rstatus,           \* log_middleware: local `status_code`
    rsent,             \* log_middleware: outcome of sse_tx.send (Ok / Err)
    rpath,             \* log_middleware: local `endpoint` (req.uri())
    rtime,             \* log_middleware: local `response_time`
    gpc,               \* get_access_log: position of each reader task
    gparam,            \* get_access_log: the request's `limit` query parameter
    glimit,            \* get_access_log: local `limit`
    gentries,          \* get_access_log: local `entries`
    gtotal,            \* get_access_log: local `total`
    spc,               \* sse_handler: position of each Live Stream Session
    snext,             \* sse_handler: the Receiver's next channel position
    sout,              \* sse_handler: events delivered on the response stream
    kpc,               \* get_stats: position of each stats task
    ktotal,            \* get_stats: local `total_requests`
    kstats,            \* get_stats: local `per_endpoint`
    kactive,           \* get_stats: the value read from receiver_count()
    wpc,               \* handle_socket: position of each Socket Session
    subscriptions,     \* handle_socket: local `subscriptions`
    interval_ms,       \* handle_socket: local `interval_ms`
    send_interval,     \* handle_socket: local `send_interval` (the timer)
    wframe,            \* handle_socket: the frame socket.next() returned
    wreply,            \* handle_socket: local `resp`, built and not yet sent
    wpending,          \* handle_socket: keys the tick's for loop has left
    wup,               \* the session's transport still reaches the peer
    now,               \* the clock Utc::now() reads
    \* ---- history variables (record what happened; never read by the code)
    warrive,           \* clock value when the frame being handled arrived
    wsends,            \* sends attempted in the current turn of the loop
    wpushed,           \* keys a Data message was sent for in the current tick
    wnframes,          \* frames taken from the socket so far
    wnticks,           \* ticks taken so far
    wfirst,            \* the first message the session sent
    wfed,              \* frames taken so far by a session of Compared
    wgone,             \* keys an Unsubscribed reply named, not subscribed since
    kprev,             \* the last get_stats answer, if no record was inserted since
    assigned,          \* ids in the order `let id = *counter` produced them
    published,         \* every event handed to sse_tx.send, accepted or not
    completed,         \* number of record operations that returned
    subAt,             \* Len(published) when the session's subscribe() returned
    skipped,           \* channel positions a session lost to Lagged
    early,             \* a session had an event pending before its greeting
    dpc,               \* get_sensor_data: position of each handler task
    dkey,              \* get_sensor_data: the path parameter `key`
    derr,              \* get_sensor_data: local `is_error`
    dstatus,           \* get_sensor_data: status code of the response
    derror,            \* get_sensor_data: "error" member of the response body
    apc,               \* get_all_sensors: position of each handler task
    aidx,              \* get_all_sensors: position of the loop in AVAILABLE_SENSORS
    all                \* get_all_sensors: key set of the local map `all`

vars == << request_counter, counterLock, access_log, logLock, chan, rxCount,
           rpc, rid, rresp, rstatus, rsent, rpath, gpc, gparam, glimit, gentries,
           gtotal, spc, snext, sout, assigned, published, completed, subAt, skipped,
           early, wpc, subscriptions, interval_ms, send_interval, wframe, wreply,
           wpending, wup, now, warrive, wsends, wpushed, wnframes, wnticks,
           wfirst, wfed, wgone, rtime, kpc, ktotal, kstats, kprev, kactive,
           dpc, dkey, derr, dstatus, derror, apc, aidx, all >>

recVars == << rpc, rid, rresp, rstatus, rsent, rpath, rtime >>
statVars == << kpc, ktotal, kstats, kprev, kactive >>
getVars == << gpc, gparam, glimit, gentries, gtotal >>
sseVars == << spc, snext, sout, subAt, skipped, early >>
sharedLog == << request_counter, counterLock, access_log, logLock >>
sharedChan == << chan, rxCount >>
histRec == << assigned, published, completed >>
apiVars == << dpc, dkey, derr, dstatus, derror, apc, aidx, all >>
wsVars == << wpc, subscriptions, interval_ms, send_interval, wframe, wreply,
             wpending, wup, now, warrive, wsends, wpushed, wnframes, wnticks,
             wfirst, wfed, wgone >>

-----------------------------------------------------------------------------
(* Helpers *)

Min(a, b) == IF a < b THEN a ELSE b

\* iter().take(n) of a Vec
Take(s, n) == SubSeq(s, 1, Min(n, Len(s)))

\* Vec::insert(0, e)
InsertFrontSkip(l, e) == l
InsertFrontBug(l, e) == Append(l, e)
InsertFront(l, e) == <<e>> \o l

\* if logs.len() > 500 { logs.truncate(500) }
TruncateBug(l) == IF Len(l) > LogCap + 1 THEN SubSeq(l, 1, LogCap + 1) ELSE l
TruncateNewest(l) == IF Len(l) > LogCap THEN SubSeq(l, 2, LogCap + 1) ELSE l
Truncate(l) == IF Len(l) > LogCap THEN SubSeq(l, 1, LogCap) ELSE l

\* Mutex::lock(): the caller proceeds only when the Mutex is unlocked
CanLockBug(owner) == TRUE
CanLock(owner) == owner = Free

\* AccessLogEntry (the fields the modelled handlers read)
Entry(id, status, endpoint, ms) ==
    [id |-> id, status_code |-> status, endpoint |-> endpoint,
     response_time |-> ms]

\* No get_stats answer given since the last insert into the log.
EmptyMap == [k \in {} |-> 0]
NoAnswer == [stats |-> EmptyMap, valid |-> FALSE]

\* SSEEvent
Connected == [type |-> "connected", id |-> 0, status_code |-> 0]
Access(e) == [type |-> "access", id |-> e.id, status_code |-> e.status_code]

\* Query parameter `limit` of /api/v1/access-log: absent, a usize, or a
\* string that does not parse as usize.
LimitParams == {[kind |-> "absent", n |-> 0], [kind |-> "bad", n |-> 0]}
                 \cup {[kind |-> "num", n |-> k] : k \in 0..(LogCap + 1)}

NoParam == [kind |-> "absent", n |-> 0]

\* params.get("limit").and_then(|l| l.parse::<usize>().ok()).unwrap_or(50)
ParseLimit(q) == IF q.kind = "num" THEN q.n ELSE DefaultLimit

-----------------------------------------------------------------------------
(* Socket Session data: WSAction, WSMessage, AVAILABLE_SENSORS *)

\* The Socket Sessions of the model: one session that is fed every kind of
\* frame, and two sessions that run side by side.
Sockets == {"w1", "w2", "w3"}
Solo == {"w1"}
Compared == {"w2", "w3"}

\* AVAILABLE_SENSORS (main.rs:888-892): the first three of its fourteen
\* keys; handle_socket treats every key of the list alike.
AVAILABLE_SENSORS == << "temperature", "humidity", "oil-level" >>

Catalog == {AVAILABLE_SENSORS[i] : i \in 1..Len(AVAILABLE_SENSORS)}

\* AVAILABLE_SENSORS.contains(&s.as_str())
IsKnownBug(k) == TRUE
IsKnown(k) == k \in Catalog

\* The arms of `match key` in generate_sensor_data that return Some: the
\* arms of the three keys above (main.rs:376, 404, 433; the other eleven
\* arms, up to main.rs:849, name the other eleven keys of the list).
MatchArmsBug == {"temperature", "humidity", "unknown-key"}
MatchArms == {"temperature", "humidity", "oil-level"}

\* generate_sensor_data(key): Some(reading) for the keys its match names,
\* `_ => None` otherwise.
GeneratesBug(k) == k = "temperature"
Generates(k) == k \in MatchArms

\* Keys a client puts in the path of /api/v1/sensors/:key.
PathKeys == Catalog \cup {"unknown-key", "bogus"}

\* let mut interval_ms = 1000;
DefaultInterval == 1000
\* i.clamp(100, 60000)
MinInterval == 100
MaxInterval == 60000

ClampBug(i) == IF i > MaxInterval THEN MaxInterval ELSE i
Clamp(i) == IF i < MinInterval THEN MinInterval
            ELSE IF i > MaxInterval THEN MaxInterval ELSE i

\* A JSON member of an inbound frame: absent, null, of the type the
\* WSAction field wants ("ok"), or of another type ("bad").
Absent == [tag |-> "absent", list |-> << >>, n |-> 0]
JList(l) == [tag |-> "ok", list |-> l, n |-> 0]
JNum(i) == [tag |-> "ok", list |-> << >>, n |-> i]
JBad == [tag |-> "bad", list |-> << >>, n |-> 0]

\* An inbound WebSocket message: its kind (Message::Text or another
\* variant), whether the text is JSON, and the members of the JSON object.
TextFrame(action, sensors, interval) ==
    [kind |-> "text", json |-> TRUE, action |-> action,
     sensors |-> sensors, interval |-> interval]
NotJson == [kind |-> "text", json |-> FALSE, action |-> "",
            sensors |-> Absent, interval |-> Absent]
BinaryFrame == [kind |-> "binary", json |-> FALSE, action |-> "",
                sensors |-> Absent, interval |-> Absent]
NoFrame == [kind |-> "none", json |-> FALSE, action |-> "",
            sensors |-> Absent, interval |-> Absent]

\* The frames the model feeds a session.
Frames ==
    { TextFrame("subscribe", JList(<< "temperature", "bogus" >>), Absent),
      TextFrame("subscribe", Absent, JNum(50)),
      TextFrame("subscribe", JList(<< "humidity" >>), JNum(999999)),
      TextFrame("subscribe", JList(<< >>), JNum(1000)),
      TextFrame("subscribe", JList(<< "oil-level" >>), JNum(-1)),
      TextFrame("subscribe", JList(<< "oil-level" >>), JBad),
      TextFrame("subscribe", JBad, Absent),
      TextFrame("unsubscribe", JList(<< "temperature", "bogus" >>), Absent),
      TextFrame("unsubscribe", Absent, JBad),
      TextFrame("list", Absent, Absent),
      TextFrame("ping", JList(<< "humidity" >>), JNum(-1)),
      TextFrame("reset", Absent, Absent),
      TextFrame("Subscribe", JList(<< "humidity" >>), Absent),
      NotJson,
      BinaryFrame }

\* Option<Vec<String>> / Option<u64> of a decoded action
None == [some |-> FALSE, list |-> << >>, n |-> 0]
SomeList(l) == [some |-> TRUE, list |-> l, n |-> 0]
SomeNum(i) == [some |-> TRUE, list |-> << >>, n |-> i]

\* serde: an Option field is None when the member is absent or null.
OptList(m) == IF m.tag = "ok" THEN SomeList(m.list) ELSE None
OptNum(m) == IF m.tag = "ok" THEN SomeNum(m.n) ELSE None

\* A member deserializes into Option<Vec<String>> / Option<u64>
ListOk(m) == m.tag # "bad"
NumOkBug(m) == m.tag # "bad"
NumOk(m) == m.tag # "bad" /\ (m.tag = "ok" => m.n >= 0)

\* Result of decoding a frame: no WSAction, or the action with its fields.
NoAction == [act |-> "none", sensors |-> None, interval |-> None]
Action(a, sensors, interval) ==
    [act |-> a, sensors |-> sensors, interval |-> interval]

\* if let Message::Text(text) = msg {
\*     if let Ok(action) = serde_json::from_str::<WSAction>(&text) {
\* WSAction is internally tagged by "action" with camelCase variant names;
\* members a variant does not declare are ignored.
Decode(f) ==
    IF f.kind # "text" \/ ~f.json THEN NoAction
    ELSE IF f.action = "subscribe"
         THEN IF ListOk(f.sensors) /\ NumOk(f.interval)
              THEN Action("subscribe", OptList(f.sensors), OptNum(f.interval))
              ELSE NoAction
    ELSE IF f.action = "unsubscribe"
         THEN IF ListOk(f.sensors)
              THEN Action("unsubscribe", OptList(f.sensors), None)
              ELSE NoAction
    ELSE IF f.action = "list" THEN Action("list", None, None)
    ELSE IF f.action = "ping" THEN Action("ping", None, None)
    ELSE NoAction

\* WSMessage.  A Vec collected from the HashSet, and the Vec of targets, are
\* kept as the set of their elements; `unknown` keeps the request's order.
NoMsg == [type |-> "none"]
WelcomeBug == [type |-> "welcome", available_sensors |-> << >>]
Welcome == [type |-> "welcome", available_sensors |-> AVAILABLE_SENSORS]
Subscribed(sensors, interval, unknown) ==
    [type |-> "subscribed", sensors |-> sensors, interval |-> interval,
     unknown |-> unknown]
Unsubscribed(sensors, remaining) ==
    [type |-> "unsubscribed", sensors |-> sensors, remaining |-> remaining]
SensorsList(sensors) == [type |-> "sensorsList", sensors |-> sensors]
Pong(ts) == [type |-> "pong", timestamp |-> ts]
Data(sensor) == [type |-> "data", sensor |-> sensor]

\* tokio::time::interval(period): the first tick completes at once.
TimerBug(period) == [period |-> period, phase |-> "armed"]
Timer(period) == [period |-> period, phase |-> "ready"]
NoTimer == [period |-> 0, phase |-> "none"]

-----------------------------------------------------------------------------
(* Initial state: main() *)

Init ==
    /\ request_counter = 0
    /\ counterLock = Free
    /\ access_log = << >>
    /\ logLock = Free
    /\ chan = << >>
    /\ rxCount = 0
    /\ rpc = [p \in Recorders |-> "idle"]
    /\ rid = [p \in Recorders |-> 0]
    /\ rresp = [p \in Recorders |-> 0]
    /\ rstatus = [p \in Recorders |-> 0]
    /\ rsent = [p \in Recorders |-> "none"]
    /\ rpath = [p \in Recorders |-> << >>]
    /\ rtime = [p \in Recorders |-> 0]
    /\ kpc = [r \in StatReaders |-> "idle"]
    /\ ktotal = [r \in StatReaders |-> 0]
    /\ kstats = [r \in StatReaders |-> EmptyMap]
    /\ kprev = NoAnswer
    /\ kactive = [r \in StatReaders |-> 0]
    /\ gpc = [r \in Readers |-> "idle"]
    /\ gparam = [r \in Readers |-> NoParam]
    /\ glimit = [r \in Readers |-> 0]
    /\ gentries = [r \in Readers |-> << >>]
    /\ gtotal = [r \in Readers |-> 0]
    /\ spc = [s \in Sessions |-> "idle"]
    /\ snext = [s \in Sessions |-> 0]
    /\ sout = [s \in Sessions |-> << >>]
    /\ assigned = << >>
    /\ published = << >>
    /\ completed = 0
    /\ subAt = [s \in Sessions |-> 0]
    /\ skipped = [s \in Sessions |-> {}]
    /\ early = [s \in Sessions |-> FALSE]
    /\ wpc = [w \in Sockets |-> "start"]
    /\ subscriptions = [w \in Sockets |-> {}]
    /\ interval_ms = [w \in Sockets |-> 0]
    /\ send_interval = [w \in Sockets |-> NoTimer]
    /\ wframe = [w \in Sockets |-> NoFrame]
    /\ wreply = [w \in Sockets |-> NoMsg]
    /\ wpending = [w \in Sockets |-> {}]
    /\ wup = [w \in Sockets |-> TRUE]
    /\ now = 0
    /\ warrive = [w \in Sockets |-> 0]
    /\ wsends = [w \in Sockets |-> 0]
    /\ wpushed = [w \in Sockets |-> {}]
    /\ wnframes = [w \in Sockets |-> 0]
    /\ wnticks = [w \in Sockets |-> 0]
    /\ wfirst = [w \in Sockets |-> NoMsg]
    /\ wfed = [w \in Sockets |-> << >>]
    /\ wgone = [w \in Sockets |-> {}]
    /\ dpc = [d \in Fetchers |-> "idle"]
    /\ dkey = [d \in Fetchers |-> ""]
    /\ derr = [d \in Fetchers |-> FALSE]
    /\ dstatus = [d \in Fetchers |-> 0]
    /\ derror = [d \in Fetchers |-> ""]
    /\ apc = [a \in Listers |-> "idle"]
    /\ aidx = [a \in Listers |-> 0]
    /\ all = [a \in Listers |-> {}]


-----------------------------------------------------------------------------
(* log_middleware: the recording section, main.rs:1189-1230 *)

\* Record operations begun so far (the counter bounds the model).
Started == request_counter
             + Cardinality({p \in Recorders : rpc[p] \in {"lock_counter", "incr"}})

\* Records inserted into the log so far: every identifier handed out,
\* less those whose record operation has not reached its insert yet.
Inserted == Len(assigned)
              - Cardinality({p \in Recorders : rpc[p] \in {"lock_log", "insert"}})

\* Request URIs, as the pieces the prefix test can tell apart: a URI is the
\* sequence of its pieces and str::starts_with is the prefix test on them.
SensorsUri == << "/api/v1/sensors" >>
TemperatureUri == << "/api/v1/sensors", "/temperature" >>
AccessLogUri == << "/api/v1/access-log" >>
AccessLogQueryUri == << "/api/v1/access-log", "?limit=5" >>
StatsUri == << "/api/v1/stats" >>
EventsUri == << "/events" >>
WsSensorsUri == << "/ws/", "sensors" >>

\* The routes wrapped by the middleware layer (main.rs:1253-1260) that the
\* model sends requests to.
Uris == {SensorsUri, AccessLogUri, AccessLogQueryUri, StatsUri, EventsUri,
         WsSensorsUri}

\* str::starts_with
StartsWith(u, pre) == Len(pre) <= Len(u) /\ SubSeq(u, 1, Len(pre)) = pre

\* let skip = endpoint.starts_with(..) || ..   (main.rs:1195-1198)
SkipBug(u) ==
    \/ StartsWith(u, << "/api/v1/access-log" >>)
    \/ StartsWith(u, << "/api/v1/stats" >>)
    \/ StartsWith(u, << "/ws/" >>)
Skip(u) ==
    \/ StartsWith(u, << "/api/v1/access-log" >>)
    \/ StartsWith(u, << "/api/v1/stats" >>)
    \/ StartsWith(u, << "/events" >>)
    \/ StartsWith(u, << "/ws/" >>)

\* let response = next.run(req).await; status_code = response.status();
\* let skip = ..: a skipped request goes straight to `return response`.
R_Start(p, st, u, ms) ==
    /\ rpc[p] = "idle"
    /\ \A i, j \in 1..Len(RecorderOrder) :
          (RecorderOrder[j] = p /\ i < j) => rpc[RecorderOrder[i]] # "idle"
    /\ Started < MaxRecords
    /\ rpc' = [rpc EXCEPT ![p] = IF Skip(u) THEN "skip_return" ELSE "lock_counter"]
    /\ rresp' = [rresp EXCEPT ![p] = st]
    /\ rstatus' = [rstatus EXCEPT ![p] = st]
    /\ rpath' = [rpath EXCEPT ![p] = u]
    /\ rtime' = [rtime EXCEPT ![p] = ms]
    /\ UNCHANGED << wsVars, apiVars, statVars, rid, rsent, sharedLog, sharedChan, getVars, sseVars, histRec >>

\* if skip { return response; }
R_SkipReturn(p) ==
    /\ rpc[p] = "skip_return"
    /\ rpc' = [rpc EXCEPT ![p] = "idle"]
    /\ rresp' = [rresp EXCEPT ![p] = 0]
    /\ rstatus' = [rstatus EXCEPT ![p] = 0]
    /\ rpath' = [rpath EXCEPT ![p] = << >>]
    /\ rtime' = [rtime EXCEPT ![p] = 0]
    /\ UNCHANGED << wsVars, apiVars, statVars, rid, rsent, sharedLog, sharedChan, getVars, sseVars, histRec >>

\* let mut counter = state.request_counter.lock().unwrap();
\* the guard lives until the function returns.
R_LockCounter(p) ==
    /\ rpc[p] = "lock_counter"
    /\ CanLock(counterLock)
    /\ counterLock' = p
    /\ rpc' = [rpc EXCEPT ![p] = "incr"]
    /\ UNCHANGED << wsVars, apiVars, statVars, rpath, rtime, request_counter, access_log, logLock, rid, rresp, rstatus,
                    rsent, sharedChan, getVars, sseVars, histRec >>

\* *counter += 1
NextCountBug(c) == IF c >= LogCap THEN LogCap ELSE c + 1
NextCount(c) == c + 1

R_IncrDrop(p) ==
    /\ rpc[p] = "incr"
    /\ request_counter' = NextCount(request_counter)
    /\ counterLock' = Free
    /\ rpc' = [rpc EXCEPT ![p] = "read_id"]
    /\ UNCHANGED << wsVars, apiVars, statVars, rpath, rtime, access_log, logLock, rid, rresp,
                    rstatus, rsent, sharedChan, getVars, sseVars, histRec >>

\* *counter += 1;
R_Incr(p) ==
    /\ rpc[p] = "incr"
    /\ request_counter' = NextCount(request_counter)
    /\ rpc' = [rpc EXCEPT ![p] = "read_id"]
    /\ UNCHANGED << wsVars, apiVars, statVars, rpath, rtime, counterLock, access_log, logLock, rid, rresp, rstatus,
                    rsent, sharedChan, getVars, sseVars, histRec >>

R_ReadIdDrop(p) ==
    /\ rpc[p] = "read_id"
    /\ rid' = [rid EXCEPT ![p] = request_counter]
    /\ assigned' = Append(assigned, request_counter)
    /\ counterLock' = Free
    /\ rpc' = [rpc EXCEPT ![p] = "lock_log"]
    /\ UNCHANGED << wsVars, apiVars, statVars, rpath, rtime, request_counter, access_log,
                    logLock, rresp, rstatus, rsent, sharedChan, getVars, sseVars,
                    published, completed >>

\* let id = *counter;  (and the entry is built from it)
R_ReadId(p) ==
    /\ rpc[p] = "read_id"
    /\ rid' = [rid EXCEPT ![p] = request_counter]
    /\ assigned' = Append(assigned, request_counter)
    /\ rpc' = [rpc EXCEPT ![p] = "lock_log"]
    /\ UNCHANGED << wsVars, apiVars, statVars, rpath, rtime, sharedLog, rresp, rstatus, rsent, sharedChan, getVars,
                    sseVars, published, completed >>

\* let mut logs = state.access_log.lock().unwrap();
R_LockLog(p) ==
    /\ rpc[p] = "lock_log"
    /\ CanLock(logLock)
    /\ logLock' = p
    /\ rpc' = [rpc EXCEPT ![p] = "insert"]
    /\ UNCHANGED << wsVars, apiVars, statVars, rpath, rtime, request_counter, counterLock, access_log, rid, rresp,
                    rstatus, rsent, sharedChan, getVars, sseVars, histRec >>

\* logs.insert(0, entry.clone());
R_Insert(p) ==
    /\ rpc[p] = "insert"
    /\ access_log' = InsertFront(access_log,
                                 Entry(rid[p], rstatus[p], rpath[p], rtime[p]))
    /\ kprev' = NoAnswer
    /\ rpc' = [rpc EXCEPT ![p] = "truncate"]
    /\ UNCHANGED << wsVars, apiVars, kpc, ktotal, kstats, kactive, rpath, rtime, request_counter,
                    counterLock, logLock, rid, rresp, rstatus, rsent, sharedChan,
                    getVars, sseVars, histRec >>

\* if logs.len() > 500 { logs.truncate(500); }
R_Truncate(p) ==
    /\ rpc[p] = "truncate"
    /\ access_log' = Truncate(access_log)
    /\ rpc' = [rpc EXCEPT ![p] = "unlock_log"]
    /\ UNCHANGED << wsVars, apiVars, statVars, rpath, rtime, request_counter, counterLock, logLock, rid, rresp, rstatus,
                    rsent, sharedChan, getVars, sseVars, histRec >>

\* end of the inner block: the `logs` guard is dropped
R_UnlockLog(p) ==
    /\ rpc[p] = "unlock_log"
    /\ logLock' = IF logLock = p THEN Free ELSE logLock
    /\ rpc' = [rpc EXCEPT ![p] = "send"]
    /\ UNCHANGED << wsVars, apiVars, statVars, rpath, rtime, request_counter, counterLock, access_log, rid, rresp,
                    rstatus, rsent, sharedChan, getVars, sseVars, histRec >>

\* broadcast::Sender::send never waits for a receiver
SendReadyBug == \A s \in Sessions :
                   spc[s] \in {"greeting", "streaming"} => Len(chan) - snext[s] < ChannelCap
SendReady == TRUE

\* broadcast::Sender::send: Err(SendError) and nothing stored when there is
\* no receiver, otherwise the value is stored at the tail of the ring.
SendAccepts(rx) == rx > 0

\* let _ = state.sse_tx.send(..): the result is discarded, the response
\* the middleware returns is the one next.run produced.
AfterSendBug(resp, ok) == IF ok THEN resp ELSE 500
AfterSend(resp, ok) == resp

\* let _ = state.sse_tx.send(SSEEvent::Access(entry));
R_Send(p) ==
    /\ rpc[p] = "send"
    /\ SendReady
    /\ LET ev == Access(Entry(rid[p], rstatus[p], rpath[p], rtime[p]))
           ok == SendAccepts(rxCount)
       IN  /\ chan' = IF ok THEN Append(chan, ev) ELSE chan
           /\ published' = Append(published, [id |-> ev.id, ok |-> ok])
           /\ rsent' = [rsent EXCEPT ![p] = IF ok THEN "ok" ELSE "err"]
           /\ rresp' = [rresp EXCEPT ![p] = AfterSend(rresp[p], ok)]
    /\ rpc' = [rpc EXCEPT ![p] = "return"]
    /\ UNCHANGED << wsVars, apiVars, statVars, rpath, rtime, sharedLog, rxCount, rid, rstatus, getVars, sseVars,
                    assigned, completed >>

\* `response` is returned; the `counter` guard is dropped at function exit.
R_Return(p) ==
    /\ rpc[p] = "return"
    /\ counterLock' = IF counterLock = p THEN Free ELSE counterLock
    /\ completed' = completed + 1
    /\ rpc' = [rpc EXCEPT ![p] = "idle"]
    /\ rid' = [rid EXCEPT ![p] = 0]
    /\ rresp' = [rresp EXCEPT ![p] = 0]
    /\ rstatus' = [rstatus EXCEPT ![p] = 0]
    /\ rsent' = [rsent EXCEPT ![p] = "none"]
    /\ rpath' = [rpath EXCEPT ![p] = << >>]
    /\ rtime' = [rtime EXCEPT ![p] = 0]
    /\ UNCHANGED << wsVars, apiVars, statVars, request_counter, access_log, logLock, sharedChan, getVars,
                    sseVars, assigned, published >>

-----------------------------------------------------------------------------
(* get_access_log, main.rs:983-1000 *)

\* let limit = params.get("limit")...unwrap_or(50);
G_Start(r, q) ==
    /\ gpc[r] = "idle"
    /\ gpc' = [gpc EXCEPT ![r] = "lock_log"]
    /\ gparam' = [gparam EXCEPT ![r] = q]
    /\ glimit' = [glimit EXCEPT ![r] = ParseLimit(q)]
    /\ UNCHANGED << wsVars, apiVars, statVars, gentries, gtotal, sharedLog, sharedChan, recVars, sseVars,
                    histRec >>

\* let logs = state.access_log.lock().unwrap();
\* the guard lives until the function returns.
G_LockLog(r) ==
    /\ gpc[r] = "lock_log"
    /\ CanLock(logLock)
    /\ logLock' = r
    /\ gpc' = [gpc EXCEPT ![r] = "take"]
    /\ UNCHANGED << wsVars, apiVars, statVars, request_counter, counterLock, access_log, gparam, glimit, gentries,
                    gtotal, sharedChan, recVars, sseVars, histRec >>

\* let entries: Vec<_> = logs.iter().take(limit).cloned().collect();
G_Take(r) ==
    /\ gpc[r] = "take"
    /\ gentries' = [gentries EXCEPT ![r] = Take(access_log, glimit[r])]
    /\ gpc' = [gpc EXCEPT ![r] = "read_total"]
    /\ UNCHANGED << wsVars, apiVars, statVars, sharedLog, gparam, glimit, gtotal, sharedChan, recVars, sseVars,
                    histRec >>

\* let total = *state.request_counter.lock().unwrap();
\* the temporary guard is taken and dropped within the statement.
G_ReadTotal(r) ==
    /\ gpc[r] = "read_total"
    /\ CanLock(counterLock)
    /\ gtotal' = [gtotal EXCEPT ![r] = request_counter]
    /\ gpc' = [gpc EXCEPT ![r] = "respond"]
    /\ UNCHANGED << wsVars, apiVars, statVars, sharedLog, gparam, glimit, gentries, sharedChan, recVars, sseVars,
                    histRec >>

\* Json({status, total, entries}) is returned; the `logs` guard is dropped.
G_Respond(r) ==
    /\ gpc[r] = "respond"
    /\ logLock' = IF logLock = r THEN Free ELSE logLock
    /\ gpc' = [gpc EXCEPT ![r] = "idle"]
    /\ gparam' = [gparam EXCEPT ![r] = NoParam]
    /\ glimit' = [glimit EXCEPT ![r] = 0]
    /\ gentries' = [gentries EXCEPT ![r] = << >>]
    /\ gtotal' = [gtotal EXCEPT ![r] = 0]
    /\ UNCHANGED << wsVars, apiVars, statVars, request_counter, counterLock, access_log, sharedChan,
                    recVars, sseVars, histRec >>

-----------------------------------------------------------------------------
(* get_stats, main.rs:1002-1037 *)

\* The requests of the statistics specification.  The middleware records
\* whatever status the wrapped service answers; 399 stands for the largest
\* code below the error threshold.
StatRequests ==
    { [status |-> 200, uri |-> SensorsUri, ms |-> 10],
      [status |-> 500, uri |-> SensorsUri, ms |-> 30],
      [status |-> 399, uri |-> SensorsUri, ms |-> 5],
      [status |-> 400, uri |-> TemperatureUri, ms |-> 30],
      [status |-> 200, uri |-> TemperatureUri, ms |-> 5] }

\* if entry.status_code >= 400 { errors += 1; }
IsErrorBug(code) == code > 400
IsError(code) == code >= 400

\* or_insert(json!({"count": 0, "totalTime": 0, "errors": 0})); the member
\* avgResponseTime is added by the assignment that always follows.
NewStats == [count |-> 0, totalTime |-> 0, errors |-> 0, avgResponseTime |-> 0]

\* One turn of `for entry in logs.iter()`: the endpoint's object is read,
\* or created, and overwritten.
StatsStep(m, e) ==
    LET old == IF e.endpoint \in DOMAIN m THEN m[e.endpoint] ELSE NewStats
        count == old.count + 1
        total_time == old.totalTime + e.response_time
        errors == old.errors + (IF IsError(e.status_code) THEN 1 ELSE 0)
        new == [count |-> count, totalTime |-> total_time, errors |-> errors,
                avgResponseTime |->
                    IF count > 0 THEN total_time \div count ELSE 0]
    IN  [k \in DOMAIN m \cup {e.endpoint} |-> IF k = e.endpoint THEN new ELSE m[k]]

\* logs.iter()
LogIterBug(l) == IF l = << >> THEN l ELSE Tail(l)
LogIter(l) == l

RECURSIVE StatsFold(_, _)
StatsFold(m, l) ==
    IF l = << >> THEN m ELSE StatsFold(StatsStep(m, Head(l)), Tail(l))

\* let mut per_endpoint = HashMap::new(); for entry in logs.iter() { .. }
EndpointStats(log) == StatsFold(EmptyMap, LogIter(log))

\* The handler is called.
K_Start(r) ==
    /\ kpc[r] = "idle"
    /\ kpc' = [kpc EXCEPT ![r] = "lock_log"]
    /\ UNCHANGED << wsVars, apiVars, ktotal, kstats, kprev, kactive, sharedLog, sharedChan, recVars,
                    getVars, sseVars, histRec >>

\* let logs = state.access_log.lock().unwrap();
\* the guard lives until the function returns.
K_LockLog(r) ==
    /\ kpc[r] = "lock_log"
    /\ CanLock(logLock)
    /\ logLock' = r
    /\ kpc' = [kpc EXCEPT ![r] = "read_total"]
    /\ UNCHANGED << wsVars, apiVars, ktotal, kstats, kprev, kactive, request_counter, counterLock,
                    access_log, sharedChan, recVars, getVars, sseVars, histRec >>

\* let total_requests = *state.request_counter.lock().unwrap();
\* the temporary guard is taken and dropped within the statement.
K_ReadTotal(r) ==
    /\ kpc[r] = "read_total"
    /\ CanLock(counterLock)
    /\ ktotal' = [ktotal EXCEPT ![r] = request_counter]
    /\ kpc' = [kpc EXCEPT ![r] = "compute"]
    /\ UNCHANGED << wsVars, apiVars, kstats, kprev, kactive, sharedLog, sharedChan, recVars, getVars,
                    sseVars, histRec >>

\* The for loop over the locked log.
K_Compute(r) ==
    /\ kpc[r] = "compute"
    /\ kstats' = [kstats EXCEPT ![r] = EndpointStats(access_log)]
    /\ kpc' = [kpc EXCEPT ![r] = "active"]
    /\ UNCHANGED << wsVars, apiVars, ktotal, kprev, kactive, sharedLog, sharedChan, recVars, getVars,
                    sseVars, histRec >>

\* "activeConnections": state.sse_tx.receiver_count()
K_Active(r) ==
    /\ kpc[r] = "active"
    /\ kactive' = [kactive EXCEPT ![r] = rxCount]
    /\ kpc' = [kpc EXCEPT ![r] = "respond"]
    /\ UNCHANGED << wsVars, apiVars, ktotal, kstats, kprev, sharedLog, sharedChan, recVars,
                    getVars, sseVars, histRec >>

\* Json({status, totalRequests, activeConnections, endpointStats}) is
\* returned; the `logs` guard is dropped.
K_Respond(r) ==
    /\ kpc[r] = "respond"
    /\ logLock' = IF logLock = r THEN Free ELSE logLock
    /\ kprev' = [stats |-> kstats[r], valid |-> TRUE]
    /\ kpc' = [kpc EXCEPT ![r] = "idle"]
    /\ ktotal' = [ktotal EXCEPT ![r] = 0]
    /\ kstats' = [kstats EXCEPT ![r] = EmptyMap]
    /\ kactive' = [kactive EXCEPT ![r] = 0]
    /\ UNCHANGED << wsVars, apiVars, request_counter, counterLock, access_log, sharedChan,
                    recVars, getVars, sseVars, histRec >>

-----------------------------------------------------------------------------
(* get_sensor_data, main.rs:928-966, and get_all_sensors, main.rs:968-981 *)

\* The statuses and the "error" members of the responses.
Ok == 200
NotFound == 404
InternalServerError == 500
NoError == ""
SensorUnavailable == "Sensor temporarily unavailable"
SensorNotFound == "Sensor not found"

\* Path(key) is extracted; let is_error = rng.gen_bool(0.05); the delay is
\* drawn and slept through.
D_Start(d, key, is_error) ==
    /\ dpc[d] = "idle"
    /\ dkey' = [dkey EXCEPT ![d] = key]
    /\ derr' = [derr EXCEPT ![d] = is_error]
    /\ dpc' = [dpc EXCEPT ![d] = "sleep"]
    /\ UNCHANGED << dstatus, derror, apc, aidx, all, wsVars, sharedLog,
                    sharedChan, recVars, getVars, sseVars, histRec, statVars >>

\* if is_error { return 500 } if let Some(data) = generate_sensor_data(&key)
\* { 200 with data } else { 404 }
D_Respond(d) ==
    /\ dpc[d] = "sleep"
    /\ dstatus' = [dstatus EXCEPT
                     ![d] = IF derr[d] THEN InternalServerError
                            ELSE IF Generates(dkey[d]) THEN Ok ELSE NotFound]
    /\ derror' = [derror EXCEPT
                    ![d] = IF derr[d] THEN SensorUnavailable
                           ELSE IF Generates(dkey[d]) THEN NoError
                           ELSE SensorNotFound]
    /\ dpc' = [dpc EXCEPT ![d] = "respond"]
    /\ UNCHANGED << dkey, derr, apc, aidx, all, wsVars, sharedLog, sharedChan,
                    recVars, getVars, sseVars, histRec, statVars >>

\* The response has gone out; the task ends.
D_Return(d) ==
    /\ dpc[d] = "respond"
    /\ dpc' = [dpc EXCEPT ![d] = "idle"]
    /\ dkey' = [dkey EXCEPT ![d] = ""]
    /\ derr' = [derr EXCEPT ![d] = FALSE]
    /\ dstatus' = [dstatus EXCEPT ![d] = 0]
    /\ derror' = [derror EXCEPT ![d] = NoError]
    /\ UNCHANGED << apc, aidx, all, wsVars, sharedLog, sharedChan, recVars,
                    getVars, sseVars, histRec, statVars >>

\* let mut all = HashMap::new();
A_Start(a) ==
    /\ apc[a] = "idle"
    /\ all' = [all EXCEPT ![a] = {}]
    /\ aidx' = [aidx EXCEPT ![a] = 1]
    /\ apc' = [apc EXCEPT ![a] = "loop"]
    /\ UNCHANGED << dpc, dkey, derr, dstatus, derror, wsVars, sharedLog,
                    sharedChan, recVars, getVars, sseVars, histRec, statVars >>

\* One turn of `for &key in AVAILABLE_SENSORS`:
\* if let Some(data) = generate_sensor_data(key) { all.insert(key, data); }
A_Step(a) ==
    /\ apc[a] = "loop"
    /\ LET key == AVAILABLE_SENSORS[aidx[a]]
       IN  all' = [all EXCEPT ![a] = IF Generates(key) THEN @ \cup {key} ELSE @]
    /\ aidx' = [aidx EXCEPT ![a] = @ + 1]
    /\ apc' = [apc EXCEPT
                 ![a] = IF aidx[a] = Len(AVAILABLE_SENSORS) THEN "respond" ELSE "loop"]
    /\ UNCHANGED << dpc, dkey, derr, dstatus, derror, wsVars, sharedLog,
                    sharedChan, recVars, getVars, sseVars, histRec, statVars >>

\* Json({status: "ok", timestamp, data: all}) has gone out; the task ends.
A_Return(a) ==
    /\ apc[a] = "respond"
    /\ apc' = [apc EXCEPT ![a] = "idle"]
    /\ aidx' = [aidx EXCEPT ![a] = 0]
    /\ all' = [all EXCEPT ![a] = {}]
    /\ UNCHANGED << dpc, dkey, derr, dstatus, derror, wsVars, sharedLog,
                    sharedChan, recVars, getVars, sseVars, histRec, statVars >>

-----------------------------------------------------------------------------
(* sse_handler, main.rs:1039-1056, over tokio::sync::broadcast *)

\* Receiver::recv outcome for a receiver at position `next` when the
\* channel has accepted `tail` events: the ring holds the last ChannelCap.
Lagging(next, tail) == tail - next > ChannelCap
Readable(next, tail) == next < tail /\ ~Lagging(next, tail)

\* On Lagged the receiver resumes at the oldest event still in the ring.
LagResumeBug(tail) == tail
LagResume(tail) == tail - ChannelCap

\* initial_stream.chain(broadcast_stream): the broadcast stream is polled
\* only once the greeting has been yielded.
CanForwardBug(s) == spc[s] \in {"greeting", "streaming"}
CanForward(s) == spc[s] = "streaming"

\* subscribe(): the new receiver starts at the current tail.
SubscribeAtBug(tail) == IF tail > 0 THEN tail - 1 ELSE 0
SubscribeAt(tail) == tail

\* Receiver::drop: the channel counts one receiver less.
ReceiversAfterDropBug(rx) == rx
ReceiversAfterDrop(rx) == rx - 1

\* let rx = state.sse_tx.subscribe();
S_Subscribe(s) ==
    /\ spc[s] = "idle"
    /\ \A i, j \in 1..Len(SessionOrder) :
          (SessionOrder[j] = s /\ i < j) => spc[SessionOrder[i]] # "idle"
    /\ rxCount' = rxCount + 1
    /\ snext' = [snext EXCEPT ![s] = SubscribeAt(Len(chan))]
    /\ subAt' = [subAt EXCEPT ![s] = Len(published)]
    /\ spc' = [spc EXCEPT ![s] = "greeting"]
    /\ UNCHANGED << wsVars, apiVars, statVars, sharedLog, chan, recVars, getVars, sout, skipped, early,
                    histRec >>

\* initial_stream: once(Connected) is yielded first
S_Greeting(s) ==
    /\ spc[s] = "greeting"
    /\ sout' = [sout EXCEPT ![s] = Append(@, Connected)]
    /\ early' = [early EXCEPT ![s] = snext[s] < Len(chan)]
    /\ spc' = [spc EXCEPT ![s] = "streaming"]
    /\ UNCHANGED << wsVars, apiVars, statVars, sharedLog, sharedChan, recVars, getVars, snext, subAt,
                    skipped, histRec >>

\* BroadcastStream yields Ok(event): Some(Ok(Event::default().data(..)))
S_RecvOk(s) ==
    /\ CanForward(s)
    /\ Readable(snext[s], Len(chan))
    /\ sout' = [sout EXCEPT ![s] = Append(@, chan[snext[s] + 1])]
    /\ snext' = [snext EXCEPT ![s] = @ + 1]
    /\ UNCHANGED << wsVars, apiVars, statVars, sharedLog, sharedChan, recVars, getVars, spc, subAt,
                    skipped, early, histRec >>

\* BroadcastStream yields Err(Lagged(n)): filter_map maps it to None, the
\* stream goes on.
S_RecvLagged(s) ==
    /\ CanForward(s)
    /\ Lagging(snext[s], Len(chan))
    /\ snext' = [snext EXCEPT ![s] = LagResume(Len(chan))]
    /\ skipped' = [skipped EXCEPT
                     ![s] = @ \cup ((snext[s] + 1) .. LagResume(Len(chan)))]
    /\ UNCHANGED << wsVars, apiVars, statVars, sharedLog, sharedChan, recVars, getVars, spc, sout, subAt,
                    early, histRec >>

\* The transport is closed: the response stream and its Receiver are
\* dropped, and with them everything the session held.
S_Close(s) ==
    /\ spc[s] \in {"greeting", "streaming"}
    /\ spc' = [spc EXCEPT ![s] = "closed"]
    /\ rxCount' = ReceiversAfterDrop(rxCount)
    /\ snext' = [snext EXCEPT ![s] = 0]
    /\ sout' = [sout EXCEPT ![s] = << >>]
    /\ subAt' = [subAt EXCEPT ![s] = 0]
    /\ skipped' = [skipped EXCEPT ![s] = {}]
    /\ early' = [early EXCEPT ![s] = FALSE]
    /\ UNCHANGED << wsVars, apiVars, statVars, sharedLog, chan, recVars, getVars, histRec >>

-----------------------------------------------------------------------------
(* handle_socket, main.rs:1065-1160 *)

MaxFrames == 3
MaxTicks == 2
MaxClock == 2

otherVars == << sharedLog, sharedChan, recVars, getVars, sseVars, histRec,
               statVars, apiVars >>

\* socket.send(..).await: Ok while the transport reaches the peer
SendOkBug(w) == TRUE
SendOk(w) == wup[w]

\* The task is at tokio::select!, no branch body running.
AtSelectBug(w) == wpc[w] \in {"open", "reply", "tick"}
AtSelect(w) == wpc[w] = "open"

\* socket.next() yields None or Some(Err(_)): the transport is closed.
StreamEndedBug(w) == TRUE
StreamEnded(w) == ~wup[w]

\* The first message of a session, m being sent now.
FirstSent(w, m) == IF wfirst[w] = NoMsg THEN m ELSE wfirst[w]

\* Elements of a Vec
Elems(l) == {l[i] : i \in 1..Len(l)}

\* let requested = sensors.unwrap_or_else(|| AVAILABLE_SENSORS ...collect());
Requested(a) == IF a.sensors.some THEN a.sensors.list ELSE AVAILABLE_SENSORS

UnknownKey(k) == ~IsKnown(k)

\* for s in requested { if contains { subscriptions.insert(s) } else { unknown.push(s) } }
AfterSubscribeBug(subs, a) == {k \in Elems(Requested(a)) : IsKnown(k)}
AfterSubscribe(subs, a) == subs \cup {k \in Elems(Requested(a)) : IsKnown(k)}
UnknownOf(a) == SelectSeq(Requested(a), UnknownKey)

\* if let Some(i) = interval { interval_ms = i.clamp(100, 60000); .. }
AfterInterval(cur, a) == IF a.interval.some THEN Clamp(a.interval.n) ELSE cur

\* .. send_interval = tokio::time::interval(Duration::from_millis(interval_ms)); }
AfterTimerBug(timer, cur, a) ==
    IF a.interval.some /\ AfterInterval(cur, a) # timer.period
    THEN Timer(AfterInterval(cur, a)) ELSE timer
AfterTimer(timer, cur, a) ==
    IF a.interval.some THEN Timer(AfterInterval(cur, a)) ELSE timer

\* unknown: if unknown.is_empty() { None } else { Some(unknown) }
SubscribedReply(subs, interval, a) ==
    Subscribed(subs, interval,
               IF UnknownOf(a) = << >> THEN None ELSE SomeList(UnknownOf(a)))

\* let targets = sensors.unwrap_or_else(|| subscriptions.iter().cloned().collect());
Targets(subs, a) == IF a.sensors.some THEN Elems(a.sensors.list) ELSE subs

\* for s in &targets { subscriptions.remove(s); }
AfterUnsubscribeKeep(subs, a) == subs
AfterUnsubscribeBug(subs, a) == IF a.sensors.some THEN subs \ Targets(subs, a) ELSE subs
AfterUnsubscribe(subs, a) == subs \ Targets(subs, a)

\* WSMessage::Unsubscribed { sensors: targets, remaining: subscriptions... }
UnsubscribedReply(subs, a) ==
    Unsubscribed(Targets(subs, a), AfterUnsubscribe(subs, a))

\* WSMessage::SensorsList { sensors: AVAILABLE_SENSORS... }
ListReplyBug(subs) == SensorsList(SelectSeq(AVAILABLE_SENSORS, LAMBDA k : k \in subs))
ListReply(subs) == SensorsList(AVAILABLE_SENSORS)

\* WSMessage::Pong { timestamp: Utc::now().to_rfc3339() }
PongReplyBug(t) == Pong(0)
PongReply(t) == Pong(t)

W_AcceptShared(w) ==
    /\ wpc[w] = "start"
    /\ subscriptions' = [v \in Sockets |-> {}]
    /\ interval_ms' = [v \in Sockets |->
                          IF v = w \/ wpc[v] # "start" THEN DefaultInterval ELSE 0]
    /\ wpc' = [wpc EXCEPT ![w] = "welcome"]
    /\ UNCHANGED << send_interval, wframe, wreply, wpending, wup, now, warrive,
                    wsends, wpushed, wnframes, wnticks, wfirst, wfed, wgone, otherVars >>

\* let mut subscriptions = HashSet::new(); let mut interval_ms = 1000;
W_Accept(w) ==
    /\ wpc[w] = "start"
    /\ subscriptions' = [subscriptions EXCEPT ![w] = {}]
    /\ interval_ms' = [interval_ms EXCEPT ![w] = DefaultInterval]
    /\ wpc' = [wpc EXCEPT ![w] = "welcome"]
    /\ UNCHANGED << send_interval, wframe, wreply, wpending, wup, now, warrive,
                    wsends, wpushed, wnframes, wnticks, wfirst, wfed, wgone, otherVars >>

\* let _ = socket.send(welcome).await;
\* let mut send_interval = tokio::time::interval(interval_ms);
W_Welcome(w) ==
    /\ wpc[w] = "welcome"
    /\ wsends' = [wsends EXCEPT ![w] = 1]
    /\ send_interval' = [send_interval EXCEPT ![w] = Timer(interval_ms[w])]
    /\ wfirst' = [wfirst EXCEPT ![w] = FirstSent(w, Welcome)]
    /\ wpc' = [wpc EXCEPT ![w] = "open"]
    /\ UNCHANGED << subscriptions, interval_ms, wframe, wreply, wpending, wup,
                    now, warrive, wpushed, wnframes, wnticks, wfed, wgone, otherVars >>

\* select!: msg = socket.next() => Some(Ok(msg))
W_Frame(w, f) ==
    /\ AtSelect(w)
    /\ wframe' = [wframe EXCEPT ![w] = f]
    /\ warrive' = [warrive EXCEPT ![w] = now]
    /\ wnframes' = [wnframes EXCEPT ![w] = Min(@ + 1, MaxFrames)]
    /\ wsends' = [wsends EXCEPT ![w] = 0]
    /\ wfed' = [wfed EXCEPT ![w] = IF w \in Compared THEN Append(@, f) ELSE @]
    /\ wpc' = [wpc EXCEPT ![w] = "handle"]
    /\ UNCHANGED << subscriptions, interval_ms, send_interval, wreply, wpending,
                    wup, now, wpushed, wnticks, wfirst, wgone, otherVars >>

\* The body of the Message::Text branch up to the reply's send: decode,
\* update the session, build `resp`.  A frame that is no text or decodes
\* to no WSAction falls through to the next turn of the loop.
W_Handle(w) ==
    /\ wpc[w] = "handle"
    /\ LET a == Decode(wframe[w])
           subs == subscriptions[w]
       IN  \/ /\ a.act = "none"
              /\ wpc' = [wpc EXCEPT ![w] = "open"]
              /\ UNCHANGED << subscriptions, interval_ms, send_interval, wreply,
                              wframe, wgone >>
           \/ /\ a.act = "subscribe"
              /\ subscriptions' = [subscriptions EXCEPT ![w] = AfterSubscribe(subs, a)]
              /\ interval_ms' = [interval_ms EXCEPT ![w] = AfterInterval(@, a)]
              /\ send_interval' =
                    [send_interval EXCEPT ![w] = AfterTimer(@, interval_ms[w], a)]
              /\ wreply' = [wreply EXCEPT
                              ![w] = SubscribedReply(AfterSubscribe(subs, a),
                                                     AfterInterval(interval_ms[w], a), a)]
              /\ wgone' = [wgone EXCEPT ![w] = @ \ Elems(Requested(a))]
              /\ wpc' = [wpc EXCEPT ![w] = "reply"]
              /\ UNCHANGED wframe
           \/ /\ a.act = "unsubscribe"
              /\ subscriptions' = [subscriptions EXCEPT ![w] = AfterUnsubscribe(subs, a)]
              /\ wreply' = [wreply EXCEPT ![w] = UnsubscribedReply(subs, a)]
              /\ wpc' = [wpc EXCEPT ![w] = "reply"]
              /\ UNCHANGED << interval_ms, send_interval, wframe, wgone >>
           \/ /\ a.act = "list"
              /\ wreply' = [wreply EXCEPT ![w] = ListReply(subs)]
              /\ wpc' = [wpc EXCEPT ![w] = "reply"]
              /\ UNCHANGED << subscriptions, interval_ms, send_interval, wframe, wgone >>
           \/ /\ a.act = "ping"
              /\ wreply' = [wreply EXCEPT ![w] = PongReply(now)]
              /\ wpc' = [wpc EXCEPT ![w] = "reply"]
              /\ UNCHANGED << subscriptions, interval_ms, send_interval, wframe, wgone >>
    /\ UNCHANGED << wpending, wup, now, warrive, wsends, wpushed, wnframes,
                    wnticks, wfirst, wfed, otherVars >>

\* let _ = socket.send(Message::Text(to_string(&resp))).await;
\* the result is discarded and the loop goes on.
W_Reply(w) ==
    /\ wpc[w] = "reply"
    /\ wsends' = [wsends EXCEPT ![w] = @ + 1]
    /\ wreply' = [wreply EXCEPT ![w] = NoMsg]
    /\ wframe' = [wframe EXCEPT ![w] = NoFrame]
    /\ wfirst' = [wfirst EXCEPT ![w] = FirstSent(w, wreply[w])]
    /\ wgone' = [wgone EXCEPT ![w] = IF wreply[w].type = "unsubscribed"
                                     THEN @ \cup wreply[w].sensors ELSE @]
    /\ wpc' = [wpc EXCEPT ![w] = "open"]
    /\ UNCHANGED << subscriptions, interval_ms, send_interval, wpending, wup,
                    now, warrive, wpushed, wnframes, wnticks, wfed, otherVars >>

\* select!: msg = socket.next() => None or Some(Err(_)): break
W_Disconnect(w) ==
    /\ AtSelect(w)
    /\ StreamEnded(w)
    /\ wpc' = [wpc EXCEPT ![w] = "closed"]
    /\ UNCHANGED << subscriptions, interval_ms, send_interval, wframe, wreply,
                    wpending, wup, now, warrive, wsends, wpushed, wnframes,
                    wnticks, wfirst, wfed, wgone, otherVars >>

\* select!: _ = send_interval.tick() => if !subscriptions.is_empty() { for .. }
W_Tick(w) ==
    /\ AtSelect(w)
    /\ send_interval[w].phase = "ready"
    /\ wnticks' = [wnticks EXCEPT ![w] = Min(@ + 1, MaxTicks)]
    /\ send_interval' = [send_interval EXCEPT ![w].phase = "armed"]
    /\ wsends' = [wsends EXCEPT ![w] = 0]
    /\ wpushed' = [wpushed EXCEPT ![w] = {}]
    /\ wpending' = [wpending EXCEPT ![w] = subscriptions[w]]
    /\ wpc' = [wpc EXCEPT ![w] = IF subscriptions[w] = {} THEN "open" ELSE "tick"]
    /\ UNCHANGED << subscriptions, interval_ms, wframe, wreply, wup, now,
                    warrive, wnframes, wfirst, wfed, wgone, otherVars >>

\* One turn of `for sensor in &subscriptions` (the HashSet's order is
\* unspecified): a key without a reading is skipped, a failed send returns.
W_Push(w, k) ==
    /\ wpc[w] = "tick"
    /\ k \in wpending[w]
    /\ LET left == wpending[w] \ {k}
       IN  IF ~Generates(k)
           THEN /\ wpending' = [wpending EXCEPT ![w] = left]
                /\ wpc' = [wpc EXCEPT ![w] = IF left = {} THEN "open" ELSE "tick"]
                /\ UNCHANGED << wsends, wpushed, wfirst >>
           ELSE /\ wsends' = [wsends EXCEPT ![w] = @ + 1]
                /\ wfirst' = [wfirst EXCEPT ![w] = FirstSent(w, Data(k))]
                /\ IF SendOk(w)
                   THEN /\ wpushed' = [wpushed EXCEPT ![w] = @ \cup {k}]
                        /\ wpending' = [wpending EXCEPT ![w] = left]
                        /\ wpc' = [wpc EXCEPT
                                     ![w] = IF left = {} THEN "open" ELSE "tick"]
                   ELSE /\ wpc' = [wpc EXCEPT ![w] = "closed"]
                        /\ UNCHANGED << wpushed, wpending >>
    /\ UNCHANGED << subscriptions, interval_ms, send_interval, wframe, wreply,
                    wup, now, warrive, wnframes, wnticks, wfed, wgone, otherVars >>

\* Time passes on the session's timer: half of the period, then all of it,
\* and the next send_interval.tick() is ready.
W_Elapse(w) ==
    /\ wpc[w] # "closed"
    /\ send_interval[w].phase \in {"armed", "half"}
    /\ send_interval' = [send_interval EXCEPT
                            ![w].phase = IF @ = "armed" THEN "half" ELSE "ready"]
    /\ UNCHANGED << wpc, subscriptions, interval_ms, wframe, wreply, wpending,
                    wup, now, warrive, wsends, wpushed, wnframes, wnticks,
                    wfirst, wfed, wgone, otherVars >>

\* The peer goes away: from now on sends fail and socket.next() ends.
W_PeerClose(w) ==
    /\ wpc[w] # "closed"
    /\ wup[w]
    /\ wup' = [wup EXCEPT ![w] = FALSE]
    /\ UNCHANGED << wpc, subscriptions, interval_ms, send_interval, wframe,
                    wreply, wpending, now, warrive, wsends, wpushed, wnframes,
                    wnticks, wfirst, wfed, wgone, otherVars >>

\* Time passes.
ClockTick ==
    /\ now < MaxClock
    /\ now' = now + 1
    /\ UNCHANGED << wpc, subscriptions, interval_ms, send_interval, wframe,
                    wreply, wpending, wup, warrive, wsends, wpushed, wnframes,
                    wnticks, wfirst, wfed, wgone, otherVars >>

-----------------------------------------------------------------------------
(* Specification *)

\* A request task running the recording section of log_middleware.
Record(ps, reqs) ==
    \/ \E p \in ps, q \in reqs : R_Start(p, q.status, q.uri, q.ms)
    \/ \E p \in ps : R_LockCounter(p)
    \/ \E p \in ps : R_Incr(p)
    \/ \E p \in ps : R_ReadId(p)
    \/ \E p \in ps : R_LockLog(p)
    \/ \E p \in ps : R_Insert(p)
    \/ \E p \in ps : R_Truncate(p)
    \/ \E p \in ps : R_UnlockLog(p)
    \/ \E p \in ps : R_Send(p)
    \/ \E p \in ps : R_Return(p)

\* The access recorder and its readers.  The Live Stream Sessions share no
\* variable with the readers and only rxCount/chan with the recorders, so
\* they are left idle here.
NextLog ==
    \/ Record(Recorders, Requests(Statuses, {SensorsUri}, Times))
    \/ \E r \in Readers, q \in LimitParams : G_Start(r, q)
    \/ \E r \in Readers : G_LockLog(r)
    \/ \E r \in Readers : G_Take(r)
    \/ \E r \in Readers : G_ReadTotal(r)
    \/ \E r \in Readers : G_Respond(r)

SpecLog == Init /\ [][NextLog]_vars

\* The recorders as publishers and the Live Stream Sessions.  The readers
\* touch neither the channel nor a session, so they are left idle here.
NextSSE ==
    \/ Record(Recorders, Requests(StreamStatuses, {SensorsUri}, Times))
    \/ \E s \in Sessions : S_Subscribe(s)
    \/ \E s \in Sessions : S_Greeting(s)
    \/ \E s \in Sessions : S_RecvOk(s)
    \/ \E s \in Sessions : S_RecvLagged(s)
    \/ \E s \in Sessions : S_Close(s)

SpecSSE == Init /\ [][NextSSE]_vars

\* The instrumentation boundary: request tasks for every wrapped route,
\* the skipped ones included, and one session to take the events.
NextSkip ==
    \/ Record(Recorders, Requests(StreamStatuses, Uris, Times))
    \/ \E p \in Recorders : R_SkipReturn(p)
    \/ \E s \in {SessionOrder[1]} : S_Subscribe(s)

SpecSkip == Init /\ [][NextSkip]_vars

\* One request task at a time and a get_stats task: the statistics read
\* the log under its lock, so a second recorder adds only interleavings of
\* the recording section, which SpecLog covers.
NextStats ==
    \/ Record({RecorderOrder[1]}, StatRequests)
    \/ \E r \in StatReaders : K_Start(r)
    \/ \E r \in StatReaders : K_LockLog(r)
    \/ \E r \in StatReaders : K_ReadTotal(r)
    \/ \E r \in StatReaders : K_Compute(r)
    \/ \E r \in StatReaders : K_Active(r)
    \/ \E r \in StatReaders : K_Respond(r)

SpecStats == Init /\ [][NextStats]_vars

\* The Live Stream Sessions coming and going, a recorder publishing to
\* them, and a get_stats task reporting how many are attached.
NextActive ==
    \/ Record({RecorderOrder[1]}, Requests(StreamStatuses, {SensorsUri}, Times))
    \/ \E s \in Sessions : S_Subscribe(s)
    \/ \E s \in Sessions : S_Greeting(s)
    \/ \E s \in Sessions : S_Close(s)
    \/ \E r \in StatReaders : K_Start(r)
    \/ \E r \in StatReaders : K_LockLog(r)
    \/ \E r \in StatReaders : K_ReadTotal(r)
    \/ \E r \in StatReaders : K_Compute(r)
    \/ \E r \in StatReaders : K_Active(r)
    \/ \E r \in StatReaders : K_Respond(r)

SpecActive == Init /\ [][NextActive]_vars

\* The handlers of the sensor routes: they share no state with each other
\* nor with the rest of the server.
NextApi ==
    \/ \E d \in Fetchers, key \in PathKeys, is_error \in BOOLEAN :
          D_Start(d, key, is_error)
    \/ \E d \in Fetchers : D_Respond(d)
    \/ \E d \in Fetchers : D_Return(d)
    \/ \E a \in Listers : A_Start(a)
    \/ \E a \in Listers : A_Step(a)
    \/ \E a \in Listers : A_Return(a)

SpecApi == Init /\ [][NextApi]_vars

\* The Socket Sessions.  handle_socket ignores its SharedState argument, so
\* the recorders, readers and Live Stream Sessions are left idle here.  A
\* session takes at most MaxFrames frames and MaxTicks ticks.
NextWS ==
    \/ \E w \in Solo : W_Accept(w)
    \/ \E w \in Solo : W_Welcome(w)
    \/ \E w \in Solo, f \in Frames : wnframes[w] < MaxFrames /\ W_Frame(w, f)
    \/ \E w \in Solo : W_Handle(w)
    \/ \E w \in Solo : W_Reply(w)
    \/ \E w \in Solo : W_Disconnect(w)
    \/ \E w \in Solo : wnticks[w] < MaxTicks /\ W_Tick(w)
    \/ \E w \in Solo : W_Elapse(w)
    \/ \E w \in Solo, k \in Catalog : W_Push(w, k)
    \/ \E w \in Solo : W_PeerClose(w)
    \/ ClockTick

SpecWS == Init /\ [][NextWS]_vars

\* The frames fed to the sessions that run side by side.
PairFrames ==
    { TextFrame("subscribe", JList(<< "humidity", "bogus" >>), JNum(999999)),
      TextFrame("unsubscribe", Absent, Absent) }

\* Two Socket Sessions on transports that stay up, each taking its own
\* frames and ticks in any interleaving with the other, within the time
\* before a period has passed: a tick is the first one of a started timer.
NextPair ==
    \/ \E w \in Compared : W_Accept(w)
    \/ \E w \in Compared : W_Welcome(w)
    \/ \E w \in Compared, f \in PairFrames : wnframes[w] < MaxFrames /\ W_Frame(w, f)
    \/ \E w \in Compared : W_Handle(w)
    \/ \E w \in Compared : W_Reply(w)
    \/ \E w \in Compared : wnticks[w] < MaxTicks /\ W_Tick(w)
    \/ \E w \in Compared, k \in Catalog : W_Push(w, k)

SpecPair == Init /\ [][NextPair]_vars

\* The frames of a peer that keeps subscribing and restarting the timer.
LiveFrames ==
    { TextFrame("subscribe", JList(<< "humidity" >>), JNum(999999)),
      TextFrame("subscribe", JList(<< >>), JNum(1000)),
      TextFrame("subscribe", JList(<< "temperature", "bogus" >>), Absent),
      TextFrame("unsubscribe", JList(<< "temperature", "bogus" >>), Absent) }

\* A Socket Session on a transport that stays up, taking frames and ticks
\* without end.
NextLive ==
    \/ \E w \in Solo : W_Accept(w)
    \/ \E w \in Solo : W_Welcome(w)
    \/ \E w \in Solo, f \in LiveFrames : W_Frame(w, f)
    \/ \E w \in Solo : W_Handle(w)
    \/ \E w \in Solo : W_Reply(w)
    \/ \E w \in Solo : W_Tick(w)
    \/ \E w \in Solo, k \in Catalog : W_Push(w, k)
    \/ \E w \in Solo : W_Elapse(w)

\* The runtime keeps polling the session's task, so a step of the task that
\* can be taken is taken, and time passes on the timer.  tokio::select!
\* polls its branches in random order: a tick that is ready again and again
\* at the select is taken, however many frames are ready with it.  Nothing
\* obliges the peer to send a frame.
FairLive ==
    \A w \in Solo :
        /\ WF_vars(W_Accept(w))
        /\ WF_vars(W_Welcome(w))
        /\ WF_vars(W_Handle(w))
        /\ WF_vars(W_Reply(w))
        /\ WF_vars(\E k \in Catalog : W_Push(w, k))
        /\ WF_vars(W_Elapse(w))
        /\ SF_vars(W_Tick(w))

SpecLive == Init /\ [][NextLive]_vars /\ FairLive


-----------------------------------------------------------------------------
(* Properties of the access recorder, checked under SpecLog *)

IdsOf(l) == {l[i].id : i \in 1..Len(l)}

StrictlyDecreasingIds(l) == \A i \in 1..(Len(l) - 1) : l[i].id > l[i + 1].id

\* C1: under every interleaving of the concurrent record operations the
\* identifiers handed out so far are exactly 1..N, N the number handed out:
\* none is handed out twice, none is skipped, and they are handed out in
\* increasing order.
C1_IdsExactlyOneToN ==
    /\ {assigned[i] : i \in 1..Len(assigned)} = 1..Len(assigned)
    /\ \A i, j \in 1..Len(assigned) : i < j => assigned[i] < assigned[j]

\* Several identifiers were handed out while another request task was
\* waiting for the counter.
C1_Witness ==
    /\ Len(assigned) >= 3
    /\ \E p \in Recorders :
          rpc[p] = "lock_counter" /\ counterLock \notin {Free, p}

\* C2: whoever can observe the log (the Mutex is unlocked, a reader holds
\* it, or a recorder has just acquired it) finds at most LogCap entries, and
\* no reader ever copies more than LogCap entries; the LogCap+1 entries
\* between insert and truncate exist only while the inserting recorder
\* holds the Mutex.
C2_BoundObserved ==
    /\ logLock = Free => Len(access_log) <= LogCap
    /\ \A r \in Readers :
          /\ gpc[r] \in {"take", "read_total", "respond"}
                => Len(access_log) <= LogCap
          /\ Len(gentries[r]) <= LogCap
    /\ \A p \in Recorders : rpc[p] = "insert" => Len(access_log) <= LogCap

\* The log momentarily holds LogCap+1 entries while a reader waits for it.
C2_Witness ==
    \E r \in Readers, p \in Recorders :
        /\ gpc[r] = "lock_log"
        /\ rpc[p] = "truncate"
        /\ Len(access_log) = LogCap + 1

\* C3: outside the insert-truncate step the log retains exactly the
\* min(total, LogCap) records with the highest identifiers: a record on a
\* full log evicts the lowest identifier, never the record just inserted.
C3_RetainsNewest ==
    (\A p \in Recorders : rpc[p] # "truncate") =>
        /\ Len(access_log) = Min(Inserted, LogCap)
        /\ IdsOf(access_log) = (Inserted - Min(Inserted, LogCap) + 1) .. Inserted

\* LogCap+1 records were made: identifier 1 is gone, 2..LogCap+1 are kept.
C3_Witness ==
    /\ Len(assigned) = LogCap + 1
    /\ \A p \in Recorders : rpc[p] = "idle"
    /\ 1 \notin IdsOf(access_log)
    /\ IdsOf(access_log) = 2 .. (LogCap + 1)

\* C4: the entries get_access_log returns are min(limit, retained) many,
\* limit being 50 when the parameter is absent (or no usize); they are the
\* most recently inserted records, and their identifiers strictly decrease.
C4_RecentNewestFirst ==
    \A r \in Readers :
        gpc[r] \in {"read_total", "respond"} =>
            LET k == Len(gentries[r])
                lim == IF gparam[r].kind = "num" THEN gparam[r].n ELSE 50
            IN  /\ k = Min(lim, Len(access_log))
                /\ StrictlyDecreasingIds(gentries[r])
                /\ IdsOf(gentries[r]) = (Inserted - k + 1) .. Inserted

\* A reader asked for fewer entries than are retained, after an eviction.
C4_Witness ==
    \E r \in Readers :
        /\ gpc[r] = "respond"
        /\ gparam[r].kind = "num"
        /\ Len(gentries[r]) = 2
        /\ Len(access_log) = LogCap
        /\ request_counter > LogCap

\* C5: the counter never decreases and is never below the number of
\* retained entries; whenever its Mutex is unlocked it equals the number of
\* record operations that have returned, so the total a reader reads is
\* that number; it grows past LogCap while the log stays at LogCap.
C5_TotalCountsRecords ==
    [][ /\ request_counter' >= request_counter
        /\ Len(access_log') <= request_counter'
        /\ counterLock' = Free => request_counter' = completed'
        /\ \A r \in Readers :
              (gpc[r] = "read_total" /\ gpc'[r] = "respond")
                  => gtotal'[r] = completed
      ]_vars

\* A reader was told a total above LogCap with LogCap entries retained.
C5_Witness ==
    \E r \in Readers :
        /\ gpc[r] = "respond"
        /\ gtotal[r] > LogCap
        /\ Len(access_log) = LogCap
        /\ gtotal[r] = completed

-----------------------------------------------------------------------------
(* Properties of the broadcaster and the Live Stream Sessions, checked
   under SpecSSE *)

Attached(s) == spc[s] \in {"greeting", "streaming"}

IsAccess(ev) == ev.type = "access"

\* Identifiers of the Access events delivered on a session, in order.
AccessIds(s) ==
    LET acc == SelectSeq(sout[s], IsAccess)
    IN  [k \in 1..Len(acc) |-> acc[k].id]

SeqRange(q) == {q[k] : k \in 1..Len(q)}

\* Channel position at which the session's receiver was created: the
\* number of events the channel had accepted when subscribe() returned.
StartPos(s) == Cardinality({i \in 1..subAt[s] : published[i].ok})

\* Identifiers published before / after the session's subscribe() returned.
PublishedBefore(s) == {published[i].id : i \in 1..subAt[s]}
PublishedAfter(s) ==
    [k \in 1..(Len(published) - subAt[s]) |-> published[subAt[s] + k].id]

\* Identifiers at the channel positions the receiver has passed, without
\* the positions it lost to Lagged, in channel order.
PassedNotSkipped(s) ==
    LET idx == [k \in 1..(snext[s] - StartPos(s)) |-> StartPos(s) + k]
        Kept(j) == j \notin skipped[s]
        kept == SelectSeq(idx, Kept)
    IN  [k \in 1..Len(kept) |-> chan[kept[k]].id]

CaughtUp(s) == spc[s] = "streaming" /\ snext[s] = Len(chan)

\* C6 as claimed: a session is delivered none of the events published
\* before its subscribe() returned, and, once it has drained the channel,
\* it has been delivered every event published after.
C6_DeliveredAllAfterSubscribe ==
    \A s \in Sessions :
        Attached(s) =>
            /\ SeqRange(AccessIds(s)) \cap PublishedBefore(s) = {}
            /\ CaughtUp(s) => AccessIds(s) = PublishedAfter(s)

\* C6 amended: a session is delivered none of the events published before
\* its subscribe() returned; every event published after is accepted by
\* the channel at the session's next positions, and a session that has
\* drained the channel has been delivered all of them, in order, unless it
\* lost some to lag.
C6_NoReplayNoLossUnlessLagged ==
    \A s \in Sessions :
        Attached(s) =>
            /\ SeqRange(AccessIds(s)) \cap PublishedBefore(s) = {}
            /\ \A k \in 1..Len(PublishedAfter(s)) :
                  /\ published[subAt[s] + k].ok
                  /\ StartPos(s) + k <= Len(chan)
                  /\ chan[StartPos(s) + k].id = PublishedAfter(s)[k]
            /\ (CaughtUp(s) /\ skipped[s] = {})
                  => AccessIds(s) = PublishedAfter(s)

\* A session subscribed after an event was published and has been delivered
\* the two events published since.
C6_Witness ==
    \E s \in Sessions :
        /\ CaughtUp(s)
        /\ subAt[s] >= 1
        /\ skipped[s] = {}
        /\ Len(AccessIds(s)) >= 2

\* C7: a publish without subscribers is a no-op and no error: the record
\* operation has stored its record and returns the handler's response, the
\* channel does not take the event, and no session is ever delivered it.
C7_PublishWithoutSubscribers ==
    /\ \A p \in Recorders :
          (rpc[p] = "return" /\ rsent[p] = "err") =>
              /\ rresp[p] = rstatus[p]
              /\ Len(access_log) >= 1
              /\ access_log[1] = Entry(rid[p], rstatus[p], rpath[p], rtime[p])
    /\ \A i \in 1..Len(published) :
          ~published[i].ok =>
              /\ published[i].id \notin IdsOf(chan)
              /\ \A s \in Sessions : published[i].id \notin SeqRange(AccessIds(s))

\* The first event was dropped for want of subscribers; a session that
\* subscribed later has been delivered a later event.
C7_Witness ==
    /\ Len(published) >= 2
    /\ ~published[1].ok
    /\ \E s \in Sessions : CaughtUp(s) /\ Len(AccessIds(s)) >= 1

\* C8: a publish is never held up by a subscriber: a recorder that has
\* reached its send can always perform it, however far behind a session
\* is, and a session that keeps up is delivered every event while another
\* session is more than the channel capacity behind.
C8_PublishNeverWaits ==
    /\ \A p \in Recorders : rpc[p] = "send" => ENABLED R_Send(p)
    /\ \A s, t \in Sessions :
          ( /\ CaughtUp(s) /\ skipped[s] = {}
            /\ Attached(t) /\ Lagging(snext[t], Len(chan)) )
              => AccessIds(s) = PublishedAfter(s)

\* One session holds more than ChannelCap undelivered events while another
\* one has been delivered more than ChannelCap events.
C8_Witness ==
    \E s, t \in Sessions :
        /\ Attached(t) /\ Lagging(snext[t], Len(chan))
        /\ CaughtUp(s) /\ skipped[s] = {}
        /\ Len(AccessIds(s)) > ChannelCap

\* C9: a session that lagged has lost only events the channel had already
\* overwritten; the lag itself delivers nothing and the session stays
\* attached: what it has been delivered is exactly the events at the
\* channel positions it passed and did not lose, in order.
C9_LagLosesOnlyOverwritten ==
    \A s \in Sessions :
        Attached(s) =>
            /\ \A j \in skipped[s] : j > StartPos(s) /\ j <= Len(chan) - ChannelCap
            /\ AccessIds(s) = PassedNotSkipped(s)
            /\ skipped[s] # {} => spc[s] = "streaming"

\* A session lost events to lag and has been delivered a later event.
C9_Witness ==
    \E s \in Sessions :
        /\ skipped[s] # {}
        /\ \E j \in skipped[s] : \E k \in 1..Len(AccessIds(s)) :
              AccessIds(s)[k] > chan[j].id

\* C10: the first event delivered on a session is the Connected greeting,
\* it is delivered once, and every Access event comes after it, also when
\* Access events were published between subscribe() and the greeting.
C10_GreetingFirst ==
    \A s \in Sessions :
        /\ spc[s] = "greeting" => sout[s] = << >>
        /\ spc[s] = "streaming" =>
              /\ Len(sout[s]) >= 1
              /\ sout[s][1] = Connected
              /\ \A k \in 2..Len(sout[s]) : IsAccess(sout[s][k])

\* An event was pending when the greeting was delivered and has been
\* delivered after it.
C10_Witness ==
    \E s \in Sessions :
        /\ early[s]
        /\ Len(sout[s]) >= 2
        /\ sout[s][1] = Connected
        /\ IsAccess(sout[s][2])

-----------------------------------------------------------------------------
(* Properties of the instrumentation boundary *)

PublishedIds == {published[i].id : i \in 1..Len(published)}

TimesPublished(id) == Cardinality({i \in 1..Len(published) : published[i].id = id})

\* C11 (SpecSSE): every instrumented request that completes has made one
\* record, inserted it into the log and then handed it to the broadcaster
\* once: a record is at the head of the log when it is published, no record
\* is published before it is stored and none is published twice.
C11_StoredThenPublishedOnce ==
    /\ \A id \in PublishedIds : TimesPublished(id) = 1
    /\ \A p \in Recorders :
          /\ rpc[p] \in {"lock_log", "insert", "truncate", "unlock_log", "send"}
                => rid[p] \notin PublishedIds
          /\ rpc[p] = "send" =>
                Len(access_log) >= 1 /\ access_log[1] = Entry(rid[p], rstatus[p], rpath[p], rtime[p])
          /\ rpc[p] = "return" => TimesPublished(rid[p]) = 1
    /\ counterLock = Free =>
          /\ completed = Len(assigned)
          /\ Len(published) = completed
          /\ PublishedIds = 1..completed

\* A request is about to return after its record was stored, published and
\* delivered to a session, with earlier requests completed.
C11_Witness ==
    \E p \in Recorders, s \in Sessions :
        /\ rpc[p] = "return"
        /\ rsent[p] = "ok"
        /\ completed >= 2
        /\ rid[p] \in IdsOf(access_log)
        /\ rid[p] \in SeqRange(AccessIds(s))

\* The four paths the instrumentation leaves out (the access-log path also
\* with a query string, which req.uri() includes).
UninstrumentedUris ==
    {AccessLogUri, AccessLogQueryUri, StatsUri, EventsUri, WsSensorsUri}

\* C12 (SpecSkip): a request for /api/v1/access-log, /api/v1/stats, /events
\* or /ws/sensors never enters the recording section: every step of its
\* task leaves the request counter and the access log unchanged and
\* publishes nothing.
C12_SkippedPathsLeaveNoTrace ==
    [][ \A p \in Recorders :
          (rpc'[p] # rpc[p] /\ (rpath[p] \in UninstrumentedUris
                                  \/ rpath'[p] \in UninstrumentedUris))
            => /\ rpc'[p] \in {"skip_return", "idle"}
               /\ UNCHANGED << request_counter, access_log, chan, published,
                               assigned, completed >>
      ]_vars

\* A request for /events is returning while a session is subscribed and
\* other requests have been recorded.
C12_Witness ==
    \E p \in Recorders :
        /\ rpc[p] = "skip_return"
        /\ rpath[p] = EventsUri
        /\ rxCount >= 1
        /\ request_counter >= 1

-----------------------------------------------------------------------------
(* Socket Session claims *)

\* A turn of the select loop on a text frame that names the given action:
\* the step that decodes the frame and builds the reply.
TurnOf(w, name) ==
    /\ wpc[w] = "handle"
    /\ wpc'[w] # "handle"
    /\ wframe[w].kind = "text"
    /\ wframe[w].json
    /\ wframe[w].action = name

\* The keys a frame asks for, as a set; `whole` when it names none.
RequestedKeys(f, whole) ==
    IF f.sensors.tag = "ok"
    THEN {f.sensors.list[i] : i \in 1..Len(f.sensors.list)}
    ELSE whole

\* The session state a control frame can touch: the timer is left alone,
\* or the session did not move and only time passed on it.
SessionUnchanged(w) ==
    /\ subscriptions'[w] = subscriptions[w]
    /\ interval_ms'[w] = interval_ms[w]
    /\ \/ send_interval'[w] = send_interval[w]
       \/ wpc'[w] = wpc[w] /\ send_interval'[w].period = send_interval[w].period

\* C13: in every reachable state of a Socket Session the subscription set is
\* a subset of the SensorCatalog.
C13_SubscriptionsWithinCatalog ==
    \A w \in Sockets : subscriptions[w] \subseteq Catalog

\* A Subscribe naming an unknown key has been handled and ticks have run.
C13_Witness ==
    \E w \in Sockets :
        /\ wpc[w] = "reply"
        /\ wreply[w].type = "subscribed"
        /\ wreply[w].unknown.some
        /\ subscriptions[w] # {}
        /\ wnticks[w] > 0

\* C14: Subscribe with requested keys R (the whole catalog when sensors is
\* omitted) on a session with set S yields S \cup (R \cap Catalog); the reply
\* carries that set as sensors and R \ Catalog as unknown, unknown being
\* absent when no key was rejected.  [temperature, bogus] on a fresh session
\* leaves exactly {temperature} and reports bogus.
C14_SubscribeAddsKnownKeys ==
    [][\A w \in Sockets :
         TurnOf(w, "subscribe") /\ wpc'[w] = "reply" =>
            LET R == RequestedKeys(wframe[w], Catalog)
                reply == wreply'[w]
            IN  /\ subscriptions'[w] = subscriptions[w] \cup (R \cap Catalog)
                /\ reply.type = "subscribed"
                /\ reply.sensors = subscriptions'[w]
                /\ reply.unknown.some <=> (R \ Catalog # {})
                /\ {reply.unknown.list[i] : i \in 1..Len(reply.unknown.list)}
                      = R \ Catalog
                /\ (/\ wframe[w].sensors = JList(<< "temperature", "bogus" >>)
                    /\ subscriptions[w] = {})
                   => /\ subscriptions'[w] = {"temperature"}
                      /\ reply.unknown = SomeList(<< "bogus" >>)]_vars

\* A Subscribe on a session that already held another key was answered with
\* a rejected key.
C14_Witness ==
    \E w \in Sockets :
        /\ wpc[w] = "reply"
        /\ wreply[w].type = "subscribed"
        /\ wreply[w].unknown = SomeList(<< "bogus" >>)
        /\ subscriptions[w] = {"temperature", "humidity"}

\* The interval a request for i milliseconds gives.
Clamped(i) ==
    IF i < MinInterval THEN MinInterval
    ELSE IF i > MaxInterval THEN MaxInterval ELSE i

\* C15: the delivery interval is in [100, 60000] in every reachable state: it
\* starts at 1000, and a Subscribe carrying interval i sets it to i clamped
\* into [100, 60000] (50 becomes 100, 999999 becomes 60000) and reports the
\* clamped value in the reply.
C15_IntervalClamped ==
    /\ [](\A w \in Sockets :
            /\ wpc[w] # "start" =>
                  interval_ms[w] >= MinInterval /\ interval_ms[w] <= MaxInterval
            /\ wpc[w] = "welcome" => interval_ms[w] = 1000)
    /\ [][\A w \in Sockets :
            TurnOf(w, "subscribe") /\ wpc'[w] = "reply" =>
               LET m == wframe[w].interval
               IN  /\ m.tag = "ok" => interval_ms'[w] = Clamped(m.n)
                   /\ m.tag # "ok" => interval_ms'[w] = interval_ms[w]
                   /\ m = JNum(50) => interval_ms'[w] = 100
                   /\ m = JNum(999999) => interval_ms'[w] = 60000
                   /\ wreply'[w].interval = interval_ms'[w]]_vars

\* A Subscribe asking for 50 ms was answered after one asking for 999999 ms.
C15_Witness ==
    \E w \in Sockets :
        /\ wpc[w] = "reply"
        /\ wframe[w].interval = JNum(50)
        /\ wreply[w].type = "subscribed"
        /\ wreply[w].interval = 100
        /\ wnframes[w] > 1

\* C16: Unsubscribe with named keys T on a session with set S yields S \ T,
\* Unsubscribe with sensors omitted yields the empty set, and the reply's
\* remaining field is the set after the removal.
C16_UnsubscribeRemoves ==
    [][\A w \in Sockets :
         TurnOf(w, "unsubscribe") /\ wpc'[w] = "reply" =>
            /\ subscriptions'[w] =
                  subscriptions[w] \ RequestedKeys(wframe[w], subscriptions[w])
            /\ wframe[w].sensors.tag # "ok" => subscriptions'[w] = {}
            /\ wreply'[w].type = "unsubscribed"
            /\ wreply'[w].remaining = subscriptions'[w]
            /\ interval_ms'[w] = interval_ms[w]]_vars

\* An Unsubscribe without sensors emptied a session that held keys.
C16_Witness ==
    \E w \in Sockets :
        /\ wpc[w] = "reply"
        /\ wframe[w].action = "unsubscribe"
        /\ wframe[w].sensors.tag = "absent"
        /\ wreply[w].type = "unsubscribed"
        /\ wreply[w].sensors # {}
        /\ wreply[w].remaining = {}
        /\ subscriptions[w] = {}

\* C17: the Unsubscribed reply's sensors field holds exactly the keys that
\* were in the subscription set before the frame and are not in it after.
C17_ReplyNamesRemovedKeys ==
    [][\A w \in Sockets :
         TurnOf(w, "unsubscribe") /\ wpc'[w] = "reply" =>
            wreply'[w].sensors = subscriptions[w] \ subscriptions'[w]]_vars

\* An Unsubscribed reply names a key the session did not hold.
C17_Witness ==
    \E w \in Sockets :
        /\ wpc[w] = "reply"
        /\ wreply[w].type = "unsubscribed"
        /\ "bogus" \in wreply[w].sensors

\* C18: List replies with the full SensorCatalog whatever the subscription
\* set is, and leaves the set, the interval and the delivery timer unchanged.
C18_ListRepliesCatalog ==
    [][\A w \in Sockets :
         TurnOf(w, "list") =>
            /\ wpc'[w] = "reply"
            /\ wreply'[w].type = "sensorsList"
            /\ wreply'[w].sensors = AVAILABLE_SENSORS
            /\ SessionUnchanged(w)]_vars

\* List was answered on a session holding some but not all of the catalog.
C18_Witness ==
    \E w \in Sockets :
        /\ wpc[w] = "reply"
        /\ wreply[w].type = "sensorsList"
        /\ subscriptions[w] # {}
        /\ subscriptions[w] # Catalog

\* C19: every Ping frame received by an Open session produces exactly one
\* Pong, sent before any later frame is handled, with a timestamp no earlier
\* than the frame's arrival; Ping changes neither the set nor the interval.
C19_PingOnePong ==
    [][\A w \in Sockets :
         /\ TurnOf(w, "ping") =>
               /\ wpc'[w] = "reply"
               /\ wsends[w] = 0
               /\ wreply'[w].type = "pong"
               /\ wreply'[w].timestamp >= warrive[w]
               /\ SessionUnchanged(w)
         /\ wpc[w] = "reply" /\ wreply[w].type = "pong" =>
               /\ wframe'[w] = wframe[w] \/ wframe'[w] = NoFrame
               /\ wnframes'[w] = wnframes[w]
               /\ wpc'[w] # wpc[w] => wpc'[w] = "open" /\ wsends'[w] = 1
               /\ SessionUnchanged(w)]_vars

\* A Pong is about to go out for a Ping that arrived after time had passed.
C19_Witness ==
    \E w \in Sockets :
        /\ wpc[w] = "reply"
        /\ wreply[w].type = "pong"
        /\ warrive[w] > 0
        /\ wreply[w].timestamp > warrive[w]

\* A frame that is no control action: not text, not JSON, an action name
\* WSAction does not have, or a member of the wrong type.
Undecodable(f) ==
    \/ f.kind # "text"
    \/ ~f.json
    \/ f.action \notin {"subscribe", "unsubscribe", "list", "ping"}
    \/ f.action \in {"subscribe", "unsubscribe"} /\ f.sensors.tag = "bad"
    \/ f.action = "subscribe" /\ f.interval.tag = "bad"
    \/ f.action = "subscribe" /\ f.interval.tag = "ok" /\ f.interval.n < 0

\* C20: a frame that does not decode to a control action produces no reply,
\* leaves the subscription set and the interval unchanged, and leaves the
\* session Open.
C20_MalformedIgnored ==
    [][\A w \in Sockets :
         wpc[w] = "handle" /\ Undecodable(wframe[w]) =>
            /\ wpc'[w] \in {"handle", "open"}
            /\ wreply'[w] = NoMsg
            /\ wsends'[w] = 0
            /\ SessionUnchanged(w)]_vars

\* A Subscribe with a negative interval was dropped by a session that was
\* already subscribed and stays Open.
C20_Witness ==
    \E w \in Sockets :
        /\ wpc[w] = "open"
        /\ wframe[w] = TextFrame("subscribe", JList(<< "oil-level" >>), JNum(-1))
        /\ wsends[w] = 0
        /\ subscriptions[w] = {"temperature"}
        /\ interval_ms[w] = DefaultInterval
        /\ wup[w]

-----------------------------------------------------------------------------
(* Socket Session claims: delivery ticks and the session's life *)

\* C21: on a delivery tick whose sends all succeed a session with set S
\* pushes exactly one Data message for each key of S and none for a key
\* outside S; when S is empty the tick sends nothing.
C21_TickPushesEachSubscribedKey ==
    /\ [](\A w \in Sockets :
            wpc[w] = "tick" =>
               /\ subscriptions[w] # {}
               /\ wpushed[w] \cap wpending[w] = {}
               /\ wpushed[w] \cup wpending[w] \subseteq subscriptions[w]
               /\ wsends[w] = Cardinality(wpushed[w]))
    /\ [][\A w \in Sockets :
            /\ wpc[w] = "tick" /\ wpc'[w] = "open" =>
                  /\ wpushed'[w] = subscriptions[w]
                  /\ wsends'[w] = Cardinality(subscriptions[w])
            /\ wnticks'[w] # wnticks[w] /\ subscriptions[w] = {} =>
                  /\ wpc'[w] = "open"
                  /\ wsends'[w] = 0
                  /\ wpushed'[w] = {}
                  /\ wfirst'[w] = wfirst[w]]_vars

\* A tick of a session holding several keys has ended with every send
\* accepted.
C21_Witness ==
    \E w \in Sockets :
        /\ wpc[w] = "open"
        /\ wup[w]
        /\ Cardinality(subscriptions[w]) >= 2
        /\ wpushed[w] = subscriptions[w]
        /\ wsends[w] = Cardinality(subscriptions[w])

\* C23: when a Data push fails during a delivery tick the session is Closed
\* at once: no Data for the remaining keys of the tick is attempted and no
\* later frame or tick is processed.
C23_FailedPushCloses ==
    [][\A w \in Sockets :
         /\ wpc[w] = "tick" /\ ~wup[w] /\ wsends'[w] # wsends[w] =>
               /\ wpc'[w] = "closed"
               /\ wpushed'[w] = wpushed[w]
         /\ wpc[w] = "closed" =>
               /\ wpc'[w] = "closed"
               /\ wsends'[w] = wsends[w]
               /\ wpushed'[w] = wpushed[w]
               /\ wpending'[w] = wpending[w]
               /\ wnframes'[w] = wnframes[w]
               /\ wnticks'[w] = wnticks[w]]_vars

\* A push failed after one key of the tick was delivered and with two keys
\* still to go.
C23_Witness ==
    \E w \in Sockets :
        /\ wpc[w] = "closed"
        /\ wpushed[w] # {}
        /\ Cardinality(wpending[w]) >= 2
        /\ wsends[w] = Cardinality(wpushed[w]) + 1

\* C24: whenever any delivery attempt of a session fails, the failed send of
\* the welcome message or of a reply included, the session is Closed and
\* processes no further frame or tick.
C24_AnyFailedSendCloses ==
    [][\A w \in Sockets :
         wsends'[w] > wsends[w] /\ ~wup[w] => wpc'[w] = "closed"]_vars

\* A session whose reply could not be sent is back at the select loop.
C24_Witness ==
    \E w \in Sockets :
        /\ wpc[w] = "open"
        /\ ~wup[w]
        /\ wsends[w] = 1
        /\ wnframes[w] >= 1
        /\ wnticks[w] = 0

\* C25: control-frame handling and the delivery tick of one session never
\* interleave: between a frame's mutation and its reply no Data is sent,
\* during a tick's pushes no control frame is handled, and every Data
\* message of a tick is for a key that was in the set when the tick started.
C25_FramesAndTicksSerialized ==
    /\ [](\A w \in Sockets :
            wpc[w] = "tick" => wpushed[w] \cup wpending[w] \subseteq subscriptions[w])
    /\ [][\A w \in Sockets :
            /\ wpc[w] \in {"handle", "reply"} =>
                  /\ wpushed'[w] = wpushed[w]
                  /\ wnticks'[w] = wnticks[w]
                  /\ wpc'[w] # "tick"
            /\ wpc[w] = "tick" =>
                  /\ subscriptions'[w] = subscriptions[w]
                  /\ interval_ms'[w] = interval_ms[w]
                  /\ wnframes'[w] = wnframes[w]
                  /\ wframe'[w] = wframe[w]
                  /\ wreply'[w] = wreply[w]
                  /\ wpc'[w] \notin {"handle", "reply"}]_vars

\* A tick is under way, one key pushed and one to go, on a session that has
\* handled control frames.
C25_Witness ==
    \E w \in Sockets :
        /\ wpc[w] = "tick"
        /\ wpushed[w] # {}
        /\ wpending[w] # {}
        /\ wnframes[w] >= 2

\* C26: the first message a session sends is a Welcome listing the full
\* SensorCatalog, before any reply or Data; the session starts with an empty
\* subscription set and the default interval, and the delivery timer is
\* started at that interval.
C26_WelcomeFirst ==
    /\ [](\A w \in Sockets :
            /\ wpc[w] = "welcome" =>
                  /\ subscriptions[w] = {}
                  /\ interval_ms[w] = 1000
                  /\ wfirst[w] = NoMsg
                  /\ wsends[w] = 0
            /\ wpc[w] \notin {"start", "welcome"} =>
                  wfirst[w] = [type |-> "welcome",
                               available_sensors |-> AVAILABLE_SENSORS])
    /\ [][\A w \in Sockets :
            wpc[w] = "welcome" /\ wpc'[w] # "welcome" =>
               /\ wpc'[w] = "open"
               /\ send_interval'[w] = [period |-> 1000, phase |-> "ready"]
               /\ subscriptions'[w] = {}
               /\ interval_ms'[w] = 1000]_vars

\* A session that has since sent a reply and Data.
C26_Witness ==
    \E w \in Sockets :
        /\ wpc[w] = "open"
        /\ wfirst[w].type = "welcome"
        /\ wnframes[w] >= 1
        /\ wpushed[w] # {}

\* C27: a session leaves Open only through transport-level closure or a
\* failed delivery: no control frame closes it, an idle session keeps its
\* subscription state, Closed is terminal and nothing is sent after it.
C27_ClosedOnlyByTransport ==
    [][\A w \in Sockets :
         /\ wpc'[w] = "closed" /\ wpc[w] # "closed" =>
               ~wup[w] /\ wpc[w] \in {"open", "tick"}
         /\ wpc[w] \in {"handle", "reply"} =>
               wpc'[w] \in {"handle", "reply", "open"}
         /\ wpc[w] = "open" /\ wpc'[w] = "open" =>
               /\ subscriptions'[w] = subscriptions[w]
               /\ interval_ms'[w] = interval_ms[w]
         /\ wpc[w] = "closed" =>
               /\ wpc'[w] = "closed"
               /\ wsends'[w] = wsends[w]
               /\ wfirst'[w] = wfirst[w]
               /\ wreply'[w] = wreply[w]]_vars

\* A subscribed session was closed by its transport after time had passed.
C27_Witness ==
    \E w \in Sockets :
        /\ wpc[w] = "closed"
        /\ ~wup[w]
        /\ subscriptions[w] # {}
        /\ wnframes[w] >= 2
        /\ now > 0

\* Everything handle_socket holds for one session.
SessionState(w) ==
    << wpc[w], subscriptions[w], interval_ms[w], send_interval[w], wframe[w],
       wreply[w], wpending[w], wsends[w], wpushed[w], wfirst[w] >>

\* C28: subscription state is per connection: a control frame or tick on one
\* session never changes the set, interval or outbound messages of another,
\* so two sessions fed the same frames end in the same state whatever the
\* other does.
C28_SessionsIsolated ==
    /\ [](\A v, w \in Compared :
            wfed[v] = wfed[w] /\ wpc[v] = "open" /\ wpc[w] = "open" =>
               /\ subscriptions[v] = subscriptions[w]
               /\ interval_ms[v] = interval_ms[w]
               /\ send_interval[v].period = send_interval[w].period)
    /\ [][\A v, w \in Sockets :
            v # w /\ SessionState(w)' # SessionState(w) =>
               SessionState(v)' = SessionState(v)]_vars

\* Two sessions were fed the same two frames, ticks falling differently.
C28_Witness ==
    \E v, w \in Compared :
        /\ v # w
        /\ wfed[v] = wfed[w]
        /\ Len(wfed[v]) >= 2
        /\ wpc[v] = "open" /\ wpc[w] = "open"
        /\ subscriptions[v] # {}
        /\ interval_ms[v] # 1000
        /\ wnticks[v] # wnticks[w]

-----------------------------------------------------------------------------
(* Stats Aggregator claims *)

\* Sum of the values of a function with a finite domain.
RECURSIVE SumFn(_)
SumFn(f) ==
    IF DOMAIN f = {} THEN 0
    ELSE LET k == CHOOSE x \in DOMAIN f : TRUE
         IN  f[k] + SumFn([j \in DOMAIN f \ {k} |-> f[j]])

\* Positions of the log holding a record of the endpoint.
RecordsOf(l, ep) == {i \in 1..Len(l) : l[i].endpoint = ep}

\* What the claim says the statistics of an endpoint are.
ExpectedStats(l, ep) ==
    LET idx == RecordsOf(l, ep)
        total == SumFn([i \in idx |-> l[i].response_time])
    IN  [count |-> Cardinality(idx),
         totalTime |-> total,
         errors |-> Cardinality({i \in idx : l[i].status_code >= 400}),
         avgResponseTime |-> total \div Cardinality(idx)]

\* C29: get_stats reports, for each endpoint present in the retained log,
\* count = number of retained records for it, total = the sum of their
\* elapsed times, errors = number of them with status >= 400 (399 does not
\* count, 400 does) and average = total div count, truncated; one 200/10ms
\* and one 500/30ms record on an endpoint give count 2, errors 1, average 20.
C29_StatsPerEndpoint ==
    \A r \in StatReaders :
        kpc[r] = "respond" =>
            /\ DOMAIN kstats[r] = {access_log[i].endpoint : i \in 1..Len(access_log)}
            /\ \A ep \in DOMAIN kstats[r] :
                  /\ kstats[r][ep] = ExpectedStats(access_log, ep)
                  /\ {<< access_log[i].status_code, access_log[i].response_time >> :
                         i \in RecordsOf(access_log, ep)} = {<< 200, 10 >>, << 500, 30 >>}
                     /\ Cardinality(RecordsOf(access_log, ep)) = 2
                     => /\ kstats[r][ep].count = 2
                        /\ kstats[r][ep].errors = 1
                        /\ kstats[r][ep].avgResponseTime = 20

\* One 200/10ms and one 500/30ms record on an endpoint, and a 400 on another.
C29_Witness ==
    \E r \in StatReaders :
        /\ kpc[r] = "respond"
        /\ DOMAIN kstats[r] = {SensorsUri, TemperatureUri}
        /\ kstats[r][SensorsUri] =
              [count |-> 2, totalTime |-> 40, errors |-> 1, avgResponseTime |-> 20]
        /\ kstats[r][TemperatureUri].errors = 1

\* C30: the statistics are derived from the retained log only: the counts
\* sum to the number of retained entries (at most the log's capacity) even
\* when the all-time total is larger, an evicted record contributes to no
\* count, time or error, and two calls with no record in between return the
\* same result.
C30_StatsFromRetainedLog ==
    /\ [](\A r \in StatReaders :
            kpc[r] = "respond" =>
               LET m == kstats[r]
               IN  /\ SumFn([ep \in DOMAIN m |-> m[ep].count]) = Len(access_log)
                   /\ Len(access_log) <= LogCap
                   /\ Len(access_log) <= ktotal[r]
                   /\ SumFn([ep \in DOMAIN m |-> m[ep].totalTime])
                        = SumFn([i \in 1..Len(access_log) |->
                                    access_log[i].response_time])
                   /\ SumFn([ep \in DOMAIN m |-> m[ep].errors])
                        = Cardinality({i \in 1..Len(access_log) :
                                          access_log[i].status_code >= 400}))
    /\ [][\A r \in StatReaders :
            kpc[r] = "compute" /\ kpc'[r] = "active" /\ kprev.valid =>
               kstats'[r] = kprev.stats]_vars

\* A second answer with no record in between, after a record was evicted.
C30_Witness ==
    \E r \in StatReaders :
        /\ kpc[r] = "respond"
        /\ kprev.valid
        /\ kprev.stats = kstats[r]
        /\ ktotal[r] > Len(access_log)
        /\ Len(access_log) = LogCap
        /\ access_log[Len(access_log)].id > 1

-----------------------------------------------------------------------------
(* Claims on the locks of the access recorder *)

\* A record operation or a get_access_log call is under way.
Busy ==
    \/ \E p \in Recorders : rpc[p] # "idle"
    \/ \E r \in Readers : gpc[r] # "idle"

\* A step of an operation that is under way.
Advance ==
    \/ \E p \in Recorders :
          \/ R_LockCounter(p) \/ R_Incr(p) \/ R_ReadId(p) \/ R_LockLog(p)
          \/ R_Insert(p) \/ R_Truncate(p) \/ R_UnlockLog(p) \/ R_Send(p)
          \/ R_Return(p)
    \/ \E r \in Readers :
          G_LockLog(r) \/ G_Take(r) \/ G_ReadTotal(r) \/ G_Respond(r)

\* C34: no interleaving of concurrent record operations and access-log
\* reads deadlocks: while an operation is under way, one of them can take
\* its next step.
C34_NoDeadlock == Busy => ENABLED Advance

\* A recorder holds the counter and waits for the log while a reader holds
\* the log and waits for the counter.
C34_Witness ==
    \E p \in Recorders, r \in Readers :
        /\ rpc[p] = "lock_log"
        /\ counterLock = p
        /\ gpc[r] = "read_total"
        /\ logLock = r

\* q is strictly increasing
Increasing(q) == \A i, j \in 1..Len(q) : i < j => q[i] < q[j]

\* C35: Access events are published in the order of their identifiers, and
\* every Live Stream Session is delivered Access events with strictly
\* increasing ids, never an older record after a newer one.
C35_PublishedInIdOrder ==
    /\ Increasing([i \in 1..Len(published) |-> published[i].id])
    /\ Increasing([i \in 1..Len(chan) |-> chan[i].id])
    /\ \A s \in Sessions : Increasing(AccessIds(s))

\* Two recorders overlapped and a session took both their events, after
\* losing an earlier one to lag.
C35_Witness ==
    \E s \in Sessions :
        /\ Len(AccessIds(s)) >= 2
        /\ skipped[s] # {}
        /\ \E p \in Recorders : rpc[p] = "lock_counter"
        /\ \E p \in Recorders : rpc[p] = "return"

\* C36: every response of get_access_log is a consistent snapshot: the
\* reported total is at least every id in entries, and when the log is
\* non-empty and limit > 0 the total is the id of the first entry returned.
C36_ConsistentSnapshot ==
    \A r \in Readers :
        gpc[r] = "respond" =>
           /\ \A i \in 1..Len(gentries[r]) : gentries[r][i].id <= gtotal[r]
           /\ Len(access_log) > 0 /\ glimit[r] > 0 =>
                 /\ gentries[r] # << >>
                 /\ gtotal[r] = gentries[r][1].id

\* A response is ready while a recorder waits to count its request.
C36_Witness ==
    \E r \in Readers :
        /\ gpc[r] = "respond"
        /\ Len(gentries[r]) >= 2
        /\ gtotal[r] = gentries[r][1].id
        /\ \E p \in Recorders : rpc[p] = "lock_counter"

-----------------------------------------------------------------------------
(* Claim on the broadcaster's subscriber count *)

\* Sessions that completed subscribe() and have not been torn down.
LiveSessions == {s \in Sessions : spc[s] \in {"greeting", "streaming"}}

\* C31: the active count get_stats reports is the number of Live Stream
\* Sessions that completed subscribe and are not yet torn down: 0 at
\* startup, one more per attached session, one less per closed transport.
C31_ActiveCountsLiveSessions ==
    /\ [](/\ rxCount = Cardinality(LiveSessions)
          /\ (\A s \in Sessions : spc[s] = "idle") => rxCount = 0)
    /\ [][/\ \A r \in StatReaders :
               kpc[r] = "active" /\ kpc'[r] = "respond" =>
                  kactive'[r] = Cardinality(LiveSessions)
          /\ \A s \in Sessions :
               /\ spc[s] = "idle" /\ spc'[s] # "idle" => rxCount' = rxCount + 1
               /\ spc[s] # "closed" /\ spc'[s] = "closed" => rxCount' = rxCount - 1
         ]_vars

\* get_stats reports one subscriber after two attached and one left.
C31_Witness ==
    \E r \in StatReaders :
        /\ kpc[r] = "respond"
        /\ kactive[r] = 1
        /\ \E s \in Sessions : spc[s] = "closed"
        /\ \E s \in Sessions : spc[s] = "streaming"

-----------------------------------------------------------------------------
(* Claims on unsubscribing and on the delivery timer, checked under SpecWS *)

\* C37: once a Socket Session has sent the Unsubscribed reply for a frame
\* that removed key k, it sends no Data message for k until a later
\* Subscribe adds k again, whatever ticks and frames follow.
C37_NoDataAfterUnsubscribed ==
    [][\A w \in Sockets : \A k \in wgone[w] :
          /\ ~(k \notin wpushed[w] /\ k \in wpushed'[w])
          /\ wpc[w] = "tick" => k \notin wpending[w]
      ]_vars

\* A tick after the Unsubscribed reply for k pushed every other key.
C37_Witness ==
    \E w \in Sockets : \E k \in wgone[w] \cap Catalog :
        /\ wpc[w] = "open"
        /\ wnframes[w] = 2
        /\ subscriptions[w] = Catalog \ {k}
        /\ wpushed[w] = Catalog \ {k}

\* C38: the delivery timer is restarted only by a Subscribe that carries an
\* interval.  Subscribe without interval, Unsubscribe, List, Ping and ignored
\* frames leave the interval and the running timer unchanged; a Subscribe
\* with an interval restarts the timer at the clamped period even when that
\* period equals the current one.
C38_TimerRestartedOnlyBySubscribe ==
    [][\A w \in Sockets :
         /\ wpc[w] = "handle" /\ wpc'[w] # "handle" =>
               LET a == Decode(wframe[w])
               IN  IF a.act = "subscribe" /\ a.interval.some
                   THEN /\ interval_ms'[w] = Clamped(a.interval.n)
                        /\ send_interval'[w] = [period |-> Clamped(a.interval.n),
                                                phase |-> "ready"]
                   ELSE /\ interval_ms'[w] = interval_ms[w]
                        /\ send_interval'[w] = send_interval[w]
         /\ wpc[w] \in {"open", "reply", "tick", "closed"} =>
               /\ interval_ms'[w] = interval_ms[w]
               /\ send_interval'[w].period = send_interval[w].period
               /\ << send_interval[w].phase, send_interval'[w].phase >> \in
                     { << "ready", "ready" >>, << "ready", "armed" >>,
                       << "armed", "armed" >>, << "armed", "half" >>,
                       << "half", "half" >>, << "half", "ready" >> }
      ]_vars

\* After a tick a Subscribe carrying the period in force restarted the timer.
C38_Witness ==
    \E w \in Sockets :
        /\ wpc[w] = "reply"
        /\ wframe[w] = TextFrame("subscribe", JList(<< >>), JNum(1000))
        /\ wnframes[w] = 1
        /\ wnticks[w] = 1
        /\ interval_ms[w] = 1000
        /\ send_interval[w] = [period |-> 1000, phase |-> "ready"]

-----------------------------------------------------------------------------
(* Claims on the sensor routes, checked under SpecApi *)

\* C32: a request for /api/v1/sensors/{key} with a key outside the catalog
\* always returns 404 with a structured error body, never a 200 and never
\* any other status, on every run of the handler.
C32_UnknownKeyAlways404 ==
    \A d \in Fetchers :
        dpc[d] = "respond" /\ dkey[d] \notin Catalog =>
            dstatus[d] = 404 /\ derror[d] = "Sensor not found"

\* An unknown key was answered 500 by the simulated failure.
C32_Witness ==
    \E d \in Fetchers :
        /\ dpc[d] = "respond"
        /\ dkey[d] = "unknown-key"
        /\ dstatus[d] = 500
        /\ derror[d] = "Sensor temporarily unavailable"

-----------------------------------------------------------------------------
(* Liveness of the delivery ticks, checked under SpecLive *)

\* C39: under fair scheduling of the two event sources a Socket Session that
\* stays Open with a non-empty subscription set eventually pushes a Data
\* message for every subscribed key: as long as a key stays subscribed a
\* tick comes that has it pending, and a tick pushes every key it has
\* pending, whatever frames arrive, Subscribe frames that restart the timer
\* included.
C39_TicksNotPostponedForever ==
    \A w \in Solo : \A k \in Catalog :
        /\ (k \in subscriptions[w]) ~>
              (k \notin subscriptions[w] \/ (wpc[w] = "tick" /\ k \in wpending[w]))
        /\ (wpc[w] = "tick" /\ k \in wpending[w]) ~> (k \in wpushed[w])

\* After MaxFrames frames and a restart of the timer a tick has pushed every
\* subscribed key.
C39_Witness ==
    \E w \in Solo :
        /\ wpc[w] = "open"
        /\ wnframes[w] = MaxFrames
        /\ wnticks[w] = MaxTicks
        /\ send_interval[w].period = 60000
        /\ subscriptions[w] = {"temperature", "humidity"}
        /\ wpushed[w] = subscriptions[w]

=============================================================================
